---- MODULE Spec2Model ----
(***************************************************************************)
(* Model of the hoot-calimero tic-tac-toe logic crate:                     *)
(*   board.rs  - Cell, Board (new_zeroed, idx, get, set, check_winner,     *)
(*               is_full)                                                  *)
(*   game.rs   - Match (new, is_player, is_finished,                       *)
(*               get_current_player_symbol, make_move)                     *)
(*   validation.rs - the strategies, ValidationContext, its presets and    *)
(*               the convenience functions                                 *)
(*   players.rs - PublicKey (from_executor_id, from_base58, to_base58),    *)
(*               PlayerBoard (new, make_move, is_placed, set_finished)     *)
(*   events.rs - Event                                                     *)
(*   lib.rs    - TicTacToeState (init, next_id, create_match, make_move,   *)
(*               get_board, get_matches, get_active_match_id,              *)
(*               get_current_turn)                                         *)
(*                                                                         *)
(* Several specifications are defined over the same variables:             *)
(*   Spec       - one Match, driven by arbitrary make_move calls           *)
(*   SpecBoard  - the pure Board functions applied to arbitrary boards     *)
(*   SpecCell   - Cell::to_u8 and Cell::from_u8 on every cell and byte     *)
(*   SpecCoords - the coordinate-list strategies and validate_coordinates  *)
(*   SpecLength - ShipLengthValidationStrategy                             *)
(*   SpecFleet  - the fleet strategies                                     *)
(*   SpecCtx    - ValidationContext::validate and the three presets        *)
(*   SpecApp    - the TicTacToeState wrapper                               *)
(*   SpecQuery  - the wrapper with the queries of the wrapper and Match    *)
(*   SpecStrategy - each strategy on inputs with absent fields             *)
(*   SpecSmall  - the boards of the sizes from 0, built by new_zeroed      *)
(*   SpecPlayer - one PlayerBoard under make_move and set_finished         *)
(*   SpecPlacement - validate_ship_placement on boards, lists and sizes    *)
(***************************************************************************)
EXTENDS Integers, Sequences, FiniteSets, TLC

VARIABLES
    m,      \* the Match (game.rs:90-103): a record of its fields
    op,     \* name of the operation called last ("none" after construction)
    caller, \* the player argument of the last make_move call
    inb,    \* whether the x, y of the last make_move call were on the board
    ret,    \* Result<(), GameError> of the last make_move call
    mover,  \* the player of the last successful make_move (None before any)
    moves,  \* the number of make_move calls on the Match that returned Ok
    size,   \* SpecBoard: the size argument handed to the Board functions
    board,  \* SpecBoard: the Board under test, a Vec<u8>
    out,    \* the value returned by the last pure function or validation
    cellArg, \* SpecCell: the Cell handed to Cell::to_u8
    byteArg, \* SpecCell: the u8 handed to Cell::from_u8
    vin,    \* validation: the ValidationInput
    ctx,    \* validation: the strategies held by the ValidationContext
    trace,  \* validation: the strategies the last validate call evaluated
    app,    \* SpecApp: the TicTacToeState (lib.rs:190-197)
    emitted, \* SpecApp: the kinds of the events the last call emitted, in order
    ended,  \* SpecApp: the ids of the matches a MatchEnded was emitted for
    created, \* SpecApp: the ids the successful create_match calls returned
    pb      \* SpecPlayer: the PlayerBoard (players.rs:139-146)

vars == <<m, op, caller, inb, ret, mover, moves, size, board, out,
          cellArg, byteArg, vin, ctx, trace, app, emitted, ended, created, pb>>

\* the variables of each component, for UNCHANGED
matchVars == <<m, caller, inb, ret, mover, moves>>
boardVars == <<size, board>>
cellVars == <<cellArg, byteArg>>
valVars == <<vin, ctx, trace>>
appVars == <<app, emitted, ended, created>>

----------------------------------------------------------------------------
\* Bounds of the model and program constants

\* board.rs:48  pub const BOARD_SIZE: u8 = 3;
BOARD_SIZE == 3

\* largest x / y handed to make_move (BOARD_SIZE itself is out of bounds)
MaxCoord == 3

\* largest board size explored by SpecBoard
MaxSize == 3

\* largest raw byte stored in a board explored by SpecBoard (3 is not a Cell)
MaxByte == 3

\* Option::None
None == "None"

\* identities that can call make_move.  A PublicKey is an opaque value of
\* which the code uses only equality (players.rs), so one assignment of the
\* two roles and one outsider stand for all
Identities == {"alice", "bob", "carol"}

----------------------------------------------------------------------------
\* board.rs: Cell

Cells == {"Empty", "X", "O"}

\* Cell::to_u8
to_u8(cell) ==
    CASE cell = "Empty" -> 0
      [] cell = "X"     -> 1
      [] cell = "O"     -> 2

\* faulty variant: only the two low bits of the byte are decoded
from_u8_low_bits(value) ==
    CASE value % 4 = 1 -> "X"
      [] value % 4 = 2 -> "O"
      [] OTHER         -> "Empty"

\* Cell::from_u8: every byte other than 1 and 2 decodes to Empty
from_u8(value) ==
    CASE value = 1 -> "X"
      [] value = 2 -> "O"
      [] OTHER     -> "Empty"

----------------------------------------------------------------------------
\* board.rs: Board(pub Vec<u8>).  A Vec is a sequence; Rust index i is
\* TLA+ index i + 1.

\* Board::new_zeroed
new_zeroed(sz) == [i \in 1..(sz * sz) |-> 0]

\* faulty variant: the index is column-major
idx_column_major(sz, x, y) == x * sz + y

\* Board::idx
idx(sz, x, y) == y * sz + x

\* Board::in_bounds
in_bounds(sz, x, y) == x < sz /\ y < sz

\* Board::get; indexing a Vec out of range panics
get(b, sz, x, y) ==
    IF idx(sz, x, y) < Len(b)
    THEN from_u8(b[idx(sz, x, y) + 1])
    ELSE "Panic"

\* Board::set
set(b, sz, x, y, cell) == [b EXCEPT ![idx(sz, x, y) + 1] = to_u8(cell)]

\* the smallest element of a non-empty set of naturals: the first iteration
\* of a `for` loop at which the body returns
First(S) == CHOOSE i \in S : \A j \in S : i <= j

\* check_winner, rows loop body: row y is a win
RowWins(b, sz, y) ==
    /\ get(b, sz, 0, y) # "Empty"
    /\ \A x \in 1..(sz - 1) : get(b, sz, x, y) = get(b, sz, 0, y)

\* check_winner, columns loop body: column x is a win
ColWins(b, sz, x) ==
    /\ get(b, sz, x, 0) # "Empty"
    /\ \A y \in 1..(sz - 1) : get(b, sz, x, y) = get(b, sz, x, 0)

\* check_winner, main diagonal block
DiagWins(b, sz) ==
    /\ get(b, sz, 0, 0) # "Empty"
    /\ \A i \in 1..(sz - 1) : get(b, sz, i, i) = get(b, sz, 0, 0)

\* check_winner, anti-diagonal block
AntiWins(b, sz) ==
    /\ get(b, sz, sz - 1, 0) # "Empty"
    /\ \A i \in 1..(sz - 1) : get(b, sz, sz - 1 - i, i) = get(b, sz, sz - 1, 0)

\* faulty variant: the main diagonal block does not test first_cell != Cell::Empty
check_winner_empty_diag(b, sz) ==
    LET rows == {y \in 0..(sz - 1) : RowWins(b, sz, y)}
        cols == {x \in 0..(sz - 1) : ColWins(b, sz, x)}
    IN  IF rows # {} THEN get(b, sz, 0, First(rows))
        ELSE IF cols # {} THEN get(b, sz, First(cols), 0)
        ELSE IF \A i \in 1..(sz - 1) : get(b, sz, i, i) = get(b, sz, 0, 0)
        THEN get(b, sz, 0, 0)
        ELSE IF AntiWins(b, sz) THEN get(b, sz, sz - 1, 0)
        ELSE None

\* faulty variant: the anti-diagonal block is missing
check_winner_no_anti(b, sz) ==
    LET rows == {y \in 0..(sz - 1) : RowWins(b, sz, y)}
        cols == {x \in 0..(sz - 1) : ColWins(b, sz, x)}
    IN  IF rows # {} THEN get(b, sz, 0, First(rows))
        ELSE IF cols # {} THEN get(b, sz, First(cols), 0)
        ELSE IF DiagWins(b, sz) THEN get(b, sz, 0, 0)
        ELSE None

\* faulty variant: the rows are scanned by decreasing y
check_winner_rows_downwards(b, sz) ==
    LET rows == {y \in 0..(sz - 1) : RowWins(b, sz, y)}
        cols == {x \in 0..(sz - 1) : ColWins(b, sz, x)}
    IN  IF rows # {}
        THEN get(b, sz, 0, CHOOSE y \in rows : \A j \in rows : j <= y)
        ELSE IF cols # {} THEN get(b, sz, First(cols), 0)
        ELSE IF DiagWins(b, sz) THEN get(b, sz, 0, 0)
        ELSE IF AntiWins(b, sz) THEN get(b, sz, sz - 1, 0)
        ELSE None

\* Board::check_winner: rows, then columns, then main diagonal, then
\* anti-diagonal; the first satisfied line is returned
check_winner(b, sz) ==
    LET rows == {y \in 0..(sz - 1) : RowWins(b, sz, y)}
        cols == {x \in 0..(sz - 1) : ColWins(b, sz, x)}
    IN  IF rows # {} THEN get(b, sz, 0, First(rows))
        ELSE IF cols # {} THEN get(b, sz, First(cols), 0)
        ELSE IF DiagWins(b, sz) THEN get(b, sz, 0, 0)
        ELSE IF AntiWins(b, sz) THEN get(b, sz, sz - 1, 0)
        ELSE None

\* faulty variant: the inner loop stops one column short (x < size - 1)
is_full_short_row(b, sz) ==
    \A y \in 0..(sz - 1) : \A x \in 0..(sz - 2) : get(b, sz, x, y) # "Empty"

\* Board::is_full
is_full(b, sz) ==
    \A y \in 0..(sz - 1) : \A x \in 0..(sz - 1) : get(b, sz, x, y) # "Empty"

----------------------------------------------------------------------------
\* lib.rs: GameError, and Result<(), GameError>

Ok == [kind |-> "Ok", msg |-> ""]
Finished == [kind |-> "Finished", msg |-> ""]
Forbidden(text) == [kind |-> "Forbidden", msg |-> text]
Invalid(text) == [kind |-> "Invalid", msg |-> text]

----------------------------------------------------------------------------
\* game.rs: Match

\* Match::new
MatchNew(id, p1, p2) ==
    [id |-> id, player1 |-> p1, player2 |-> p2, turn |-> p1,
     board |-> new_zeroed(BOARD_SIZE), winner |-> None]

\* Match::is_player
is_player(mt, player) == player = mt.player1 \/ player = mt.player2

\* faulty variant: a full board without a winner is not treated as finished
is_finished_winner_only(mt) == mt.winner # None

\* Match::is_finished
is_finished(mt) == mt.winner # None \/ is_full(mt.board, BOARD_SIZE)

\* faulty variant: the symbol is taken from player2
get_current_player_symbol_player2(mt) == IF mt.turn = mt.player2 THEN "X" ELSE "O"

\* Match::get_current_player_symbol
get_current_player_symbol(mt) == IF mt.turn = mt.player1 THEN "X" ELSE "O"

\* faulty variant: the turn is never switched
ApplyMove_no_swap(mt, player, x, y) ==
    LET symbol == get_current_player_symbol(mt)
        b1 == set(mt.board, BOARD_SIZE, x, y, symbol)
        m1 == [mt EXCEPT !.board = b1]
    IN  IF check_winner(b1, BOARD_SIZE) # None
        THEN [m1 EXCEPT !.winner = player]
        ELSE m1

\* faulty variant: the turn is switched after every accepted move, winning or not
ApplyMove_swap_always(mt, player, x, y) ==
    LET symbol == get_current_player_symbol(mt)
        b1 == set(mt.board, BOARD_SIZE, x, y, symbol)
        m1 == [mt EXCEPT !.board = b1,
                         !.turn = IF mt.turn = mt.player1
                                  THEN mt.player2 ELSE mt.player1]
    IN  IF check_winner(b1, BOARD_SIZE) # None
        THEN [m1 EXCEPT !.winner = player]
        ELSE m1

\* faulty variant: a complete line is not looked for
ApplyMove_no_winner(mt, player, x, y) ==
    LET symbol == get_current_player_symbol(mt)
        b1 == set(mt.board, BOARD_SIZE, x, y, symbol)
        m1 == [mt EXCEPT !.board = b1]
    IN  IF is_full(b1, BOARD_SIZE)
        THEN [m1 EXCEPT !.winner = None]
        ELSE [m1 EXCEPT !.turn = IF mt.turn = mt.player1
                                  THEN mt.player2 ELSE mt.player1]

\* faulty variant: the full board is looked at before the winner
ApplyMove_full_first(mt, player, x, y) ==
    LET symbol == get_current_player_symbol(mt)
        b1 == set(mt.board, BOARD_SIZE, x, y, symbol)
        m1 == [mt EXCEPT !.board = b1]
    IN  IF is_full(b1, BOARD_SIZE)
        THEN [m1 EXCEPT !.winner = None]
        ELSE IF check_winner(b1, BOARD_SIZE) # None
        THEN [m1 EXCEPT !.winner = player]
        ELSE [m1 EXCEPT !.turn = IF mt.turn = mt.player1
                                  THEN mt.player2 ELSE mt.player1]

\* Match::make_move, lines 154-171: the accepted move
ApplyMove(mt, player, x, y) ==
    LET symbol == get_current_player_symbol(mt)
        b1 == set(mt.board, BOARD_SIZE, x, y, symbol)
        m1 == [mt EXCEPT !.board = b1]
    IN  IF check_winner(b1, BOARD_SIZE) # None
        THEN [m1 EXCEPT !.winner = player]
        ELSE IF is_full(b1, BOARD_SIZE)
        THEN [m1 EXCEPT !.winner = None]
        ELSE [m1 EXCEPT !.turn = IF mt.turn = mt.player1
                                  THEN mt.player2 ELSE mt.player1]

\* faulty variant: the mark is written before the cell is found occupied
make_move_write_first(mt, player, x, y) ==
    IF is_finished(mt) THEN [m |-> mt, ret |-> Finished]
    ELSE IF ~is_player(mt, player)
    THEN [m |-> mt, ret |-> Forbidden("not a player")]
    ELSE IF player # mt.turn
    THEN [m |-> mt, ret |-> Forbidden("not your turn")]
    ELSE IF x >= BOARD_SIZE \/ y >= BOARD_SIZE
    THEN [m |-> mt, ret |-> Invalid("coordinates out of bounds")]
    ELSE IF get(mt.board, BOARD_SIZE, x, y) # "Empty"
    THEN [m |-> [mt EXCEPT !.board = set(mt.board, BOARD_SIZE, x, y,
                                         get_current_player_symbol(mt))],
          ret |-> Invalid("cell already occupied")]
    ELSE [m |-> ApplyMove(mt, player, x, y), ret |-> Ok]

\* faulty variant: the is_finished test at the top is missing
make_move_no_finished_check(mt, player, x, y) ==
    IF ~is_player(mt, player)
    THEN [m |-> mt, ret |-> Forbidden("not a player")]
    ELSE IF player # mt.turn
    THEN [m |-> mt, ret |-> Forbidden("not your turn")]
    ELSE IF x >= BOARD_SIZE \/ y >= BOARD_SIZE
    THEN [m |-> mt, ret |-> Invalid("coordinates out of bounds")]
    ELSE IF get(mt.board, BOARD_SIZE, x, y) # "Empty"
    THEN [m |-> mt, ret |-> Invalid("cell already occupied")]
    ELSE [m |-> ApplyMove(mt, player, x, y), ret |-> Ok]

\* faulty variant: the coordinates are checked before the turn
make_move_bounds_first(mt, player, x, y) ==
    IF is_finished(mt) THEN [m |-> mt, ret |-> Finished]
    ELSE IF ~is_player(mt, player)
    THEN [m |-> mt, ret |-> Forbidden("not a player")]
    ELSE IF x >= BOARD_SIZE \/ y >= BOARD_SIZE
    THEN [m |-> mt, ret |-> Invalid("coordinates out of bounds")]
    ELSE IF player # mt.turn
    THEN [m |-> mt, ret |-> Forbidden("not your turn")]
    ELSE IF get(mt.board, BOARD_SIZE, x, y) # "Empty"
    THEN [m |-> mt, ret |-> Invalid("cell already occupied")]
    ELSE [m |-> ApplyMove(mt, player, x, y), ret |-> Ok]

\* faulty variant: an occupied cell is written over
make_move_overwrite(mt, player, x, y) ==
    IF is_finished(mt) THEN [m |-> mt, ret |-> Finished]
    ELSE IF ~is_player(mt, player)
    THEN [m |-> mt, ret |-> Forbidden("not a player")]
    ELSE IF player # mt.turn
    THEN [m |-> mt, ret |-> Forbidden("not your turn")]
    ELSE IF x >= BOARD_SIZE \/ y >= BOARD_SIZE
    THEN [m |-> mt, ret |-> Invalid("coordinates out of bounds")]
    ELSE [m |-> ApplyMove(mt, player, x, y), ret |-> Ok]

\* faulty variant: the two Forbidden tests are missing
make_move_no_auth(mt, player, x, y) ==
    IF is_finished(mt) THEN [m |-> mt, ret |-> Finished]
    ELSE IF x >= BOARD_SIZE \/ y >= BOARD_SIZE
    THEN [m |-> mt, ret |-> Invalid("coordinates out of bounds")]
    ELSE IF get(mt.board, BOARD_SIZE, x, y) # "Empty"
    THEN [m |-> mt, ret |-> Invalid("cell already occupied")]
    ELSE [m |-> ApplyMove(mt, player, x, y), ret |-> Ok]

\* Match::make_move: the new Match and the Result
make_move(mt, player, x, y) ==
    IF is_finished(mt) THEN [m |-> mt, ret |-> Finished]
    ELSE IF ~is_player(mt, player)
    THEN [m |-> mt, ret |-> Forbidden("not a player")]
    ELSE IF player # mt.turn
    THEN [m |-> mt, ret |-> Forbidden("not your turn")]
    ELSE IF x >= BOARD_SIZE \/ y >= BOARD_SIZE
    THEN [m |-> mt, ret |-> Invalid("coordinates out of bounds")]
    ELSE IF get(mt.board, BOARD_SIZE, x, y) # "Empty"
    THEN [m |-> mt, ret |-> Invalid("cell already occupied")]
    ELSE [m |-> ApplyMove(mt, player, x, y), ret |-> Ok]

----------------------------------------------------------------------------
\* Spec: one Match under arbitrary make_move calls

\* The Match is built by Match::new; its only caller, create_match
\* (lib.rs:261-269), passes two different identities
Init ==
    /\ m = MatchNew("match-1", "alice", "bob")
    /\ op = "none"
    /\ caller = None
    /\ inb = TRUE
    /\ ret = Ok
    /\ mover = None /\ moves = 0
    /\ size = BOARD_SIZE
    /\ board = new_zeroed(BOARD_SIZE)
    /\ out = None
    /\ cellArg = "Empty" /\ byteArg = 0
    /\ vin = None /\ ctx = <<>> /\ trace = <<>>
    /\ app = None /\ emitted = <<>> /\ ended = {} /\ created = {} /\ pb = None

\* a call of Match::make_move(player, x, y); x and y are u8
MakeMove(player, x, y) ==
    /\ op' = "make_move"
    /\ caller' = player
    /\ inb' = in_bounds(BOARD_SIZE, x, y)
    /\ \E r \in {make_move(m, player, x, y)} :
          /\ ret' = r.ret
          /\ m' = r.m
          /\ mover' = IF r.ret = Ok THEN player ELSE mover
          /\ moves' = IF r.ret = Ok THEN moves + 1 ELSE moves
    /\ UNCHANGED <<size, board, out, cellVars, valVars, appVars, pb>>

Next ==
    \E player \in Identities : \E x \in 0..MaxCoord : \E y \in 0..MaxCoord :
        MakeMove(player, x, y)

Spec == Init /\ [][Next]_vars

----------------------------------------------------------------------------
\* SpecBoard: check_winner and is_full applied to every board of every size
\* up to MaxSize, holding any bytes up to MaxByte

InitBoard ==
    /\ size \in 1..MaxSize
    /\ board \in [1..(size * size) -> 0..MaxByte]
    /\ op = "none"
    /\ out = None
    /\ m = MatchNew("match-1", "alice", "bob")
    /\ caller = None
    /\ inb = TRUE
    /\ ret = Ok
    /\ mover = None /\ moves = 0
    /\ cellArg = "Empty" /\ byteArg = 0
    /\ vin = None /\ ctx = <<>> /\ trace = <<>>
    /\ app = None /\ emitted = <<>> /\ ended = {} /\ created = {} /\ pb = None

\* a call of board.check_winner(size)
CheckWinner ==
    /\ op' = "check_winner"
    /\ out' = check_winner(board, size)
    /\ UNCHANGED <<matchVars, boardVars, cellVars, valVars, appVars, pb>>

\* a call of board.is_full(size)
IsFull ==
    /\ op' = "is_full"
    /\ out' = is_full(board, size)
    /\ UNCHANGED <<matchVars, boardVars, cellVars, valVars, appVars, pb>>

NextBoard == CheckWinner \/ IsFull

SpecBoard == InitBoard /\ [][NextBoard]_vars

----------------------------------------------------------------------------
\* Vocabulary of the properties, stated on the stored bytes and independent
\* of the functions above

\* the participants of a match
Participants(mt) == {mt.player1, mt.player2}

\* the participant other than p
OtherParticipant(mt, p) == IF p = mt.player1 THEN mt.player2 ELSE mt.player1

\* the full-length lines of a board of size n, each a set of <<x, y>>
Lines(n) ==
    {{<<x, y>> : x \in 0..(n - 1)} : y \in 0..(n - 1)}
    \cup {{<<x, y>> : y \in 0..(n - 1)} : x \in 0..(n - 1)}
    \cup {{<<i, i>> : i \in 0..(n - 1)}}
    \cup {{<<n - 1 - i, i>> : i \in 0..(n - 1)}}

\* the byte stored for the cell (x, y), row-major
ByteAt(b, n, c) == b[c[2] * n + c[1] + 1]

\* the byte of a mark
MarkByte(mark) == IF mark = "X" THEN 1 ELSE 2

\* line L of board b holds n cells of the given mark
LineOf(b, n, L, mark) == \A c \in L : ByteAt(b, n, c) = MarkByte(mark)

\* some full line of b is uniform in the given mark
HasLineOf(b, n, mark) == \E L \in Lines(n) : LineOf(b, n, L, mark)

\* some full line of b is uniform and non-empty
HasLine(b, n) == HasLineOf(b, n, "X") \/ HasLineOf(b, n, "O")

\* no cell of b decodes to Empty
NoEmptyCell(b) == \A i \in DOMAIN b : b[i] \in {1, 2}

\* Won or Tied
Terminal(mt) == mt.winner # None \/ NoEmptyCell(mt.board)

\* Tied: the board is full and no line is complete
Tied(mt) == NoEmptyCell(mt.board) /\ ~HasLine(mt.board, BOARD_SIZE)

\* the number of cells in which two boards differ
Changed(b1, b2) == Cardinality({i \in DOMAIN b1 : b1[i] # b2[i]})

----------------------------------------------------------------------------
\* C1: a make_move call that returns an error (of any kind) leaves the
\* whole Match - board, turn and winner included - as it was before the call
C1_RejectedMoveChangesNothing ==
    [][(op' = "make_move" /\ ret' # Ok) => m' = m]_vars

\* a move onto an occupied cell was rejected, marks being on the board
C1_Witness ==
    /\ op = "make_move"
    /\ ret = Invalid("cell already occupied")
    /\ Changed(m.board, new_zeroed(BOARD_SIZE)) >= 2

\* C2: once the match has a winner or a full board, every make_move call
\* - whoever the player, whatever the coordinates - returns Finished and the
\* Match never changes again
C2_TerminalIsAbsorbing ==
    [][Terminal(m) =>
          /\ m' = m
          /\ \A p \in Identities : \A x, y \in 0..MaxCoord :
                MakeMove(p, x, y) => ret' = Finished]_vars

\* a non-participant, with coordinates off the board, was answered Finished
\* on a won match
C2_Witness ==
    /\ op = "make_move"
    /\ m.winner # None
    /\ ~NoEmptyCell(m.board)
    /\ caller \notin Participants(m)
    /\ ~inb
    /\ ret = Finished

\* the rules of make_move in their fixed order, each with its error
Rules(mt, p, x, y) ==
    << <<Terminal(mt), Finished>>,
       <<p \notin Participants(mt), Forbidden("not a player")>>,
       <<p # mt.turn, Forbidden("not your turn")>>,
       <<x > BOARD_SIZE - 1 \/ y > BOARD_SIZE - 1,
         Invalid("coordinates out of bounds")>>,
       <<x < BOARD_SIZE /\ y < BOARD_SIZE
            /\ ByteAt(mt.board, BOARD_SIZE, <<x, y>>) \in {1, 2},
         Invalid("cell already occupied")>> >>

\* the error of the first violated rule, Ok when none is violated
FirstViolated(mt, p, x, y) ==
    LET rules == Rules(mt, p, x, y)
        bad == {i \in DOMAIN rules : rules[i][1]}
    IN  IF bad = {} THEN Ok
        ELSE rules[CHOOSE i \in bad : \A j \in bad : i <= j][2]

\* C3: in every reachable state of the Match, whoever calls make_move with
\* whatever coordinates is answered with the error of the first violated
\* rule in the order Finished, not a player, not your turn, out of bounds,
\* occupied (and with Ok when no rule is violated)
C3_FirstViolatedRuleWins ==
    \A p \in Identities : \A x, y \in 0..MaxCoord :
        make_move(m, p, x, y).ret = FirstViolated(m, p, x, y)

\* the participant who is not on turn, with coordinates off the board, was
\* answered Forbidden
C3_Witness ==
    /\ op = "make_move"
    /\ caller \in Participants(m)
    /\ caller # m.turn
    /\ ~inb
    /\ ~Terminal(m)
    /\ ret = Forbidden("not your turn")

\* C4: after an accepted move that does not end the match the turn is the
\* other participant's, and no player makes two accepted moves in a row
C4_TurnsAlternate ==
    [][(op' = "make_move" /\ ret' = Ok) =>
          /\ caller' # mover
          /\ ~Terminal(m') => m'.turn = OtherParticipant(m, caller')
          /\ ~Terminal(m') => m'.turn # caller']_vars

\* player2 has moved after player1 and the turn is back with player1
C4_Witness ==
    /\ op = "make_move"
    /\ ret = Ok
    /\ caller = m.player2
    /\ ~Terminal(m)
    /\ m.turn = m.player1

\* C5: an accepted move changes exactly the target cell, from Empty to the
\* mover's mark, and does exactly one of: swap the turn, set the winner to
\* the mover, or fill the board without a winner; Won and Tied keep the turn
C5_OneCellOneOutcome ==
    [][\A p \in Identities : \A x, y \in 0..MaxCoord :
          (ret' = Ok /\ MakeMove(p, x, y)) =>
             LET i == y * BOARD_SIZE + x + 1
                 swapped == m'.turn # m.turn
                 won == m'.winner # None
                 tied == m'.winner = None /\ NoEmptyCell(m'.board)
             IN  /\ x < BOARD_SIZE /\ y < BOARD_SIZE
                 /\ m.board[i] = 0
                 /\ m'.board[i] = MarkByte(IF p = m.player1 THEN "X" ELSE "O")
                 /\ \A j \in DOMAIN m.board : j # i => m'.board[j] = m.board[j]
                 /\ Changed(m.board, m'.board) = 1
                 /\ Cardinality({k \in {"swapped", "won", "tied"} :
                        \/ k = "swapped" /\ swapped
                        \/ k = "won" /\ won
                        \/ k = "tied" /\ tied}) = 1
                 /\ swapped => m'.turn = OtherParticipant(m, p)
                 /\ won => m'.winner = p
                 /\ m'.id = m.id
                 /\ m'.player1 = m.player1 /\ m'.player2 = m.player2]_vars

\* a winning move was accepted: the winner is the mover and the turn stays
C5_Witness ==
    /\ op = "make_move"
    /\ ret = Ok
    /\ m.winner = caller
    /\ m.turn = caller

\* C6: turn is always one of the two players and the winner, when set, is
\* one of the two players
C6_TurnAndWinnerAreParticipants ==
    /\ m.turn \in Participants(m)
    /\ m.winner # None => m.winner \in Participants(m)

\* player2 has won
C6_Witness ==
    /\ op = "make_move"
    /\ m.winner = m.player2
    /\ m.turn = m.player2

\* C7: the winner is set iff the board holds a complete line; it is set by
\* the call that completes the line, to the player of that call, who is
\* player1 iff the line is of X and player2 iff it is of O
C7_WinnerIffLine ==
    /\ [](/\ m.winner # None <=> HasLine(m.board, BOARD_SIZE)
          /\ m.winner = m.player1 <=> HasLineOf(m.board, BOARD_SIZE, "X")
          /\ m.winner = m.player2 <=> HasLineOf(m.board, BOARD_SIZE, "O"))
    /\ [][(op' = "make_move" /\ ret' = Ok /\ HasLine(m'.board, BOARD_SIZE)) =>
             /\ ~HasLine(m.board, BOARD_SIZE)
             /\ m.winner = None
             /\ m'.winner = caller']_vars

\* player2 completed the anti-diagonal with O in the call just made
C7_Witness ==
    /\ op = "make_move"
    /\ ret = Ok
    /\ LineOf(m.board, BOARD_SIZE, {<<2, 0>>, <<1, 1>>, <<0, 2>>}, "O")
    /\ m.winner = m.player2
    /\ caller = m.player2

\* C8: when the last empty cell is filled without completing a line the
\* match is Tied: the winner is unset, is_finished is true, and every later
\* move is answered Finished
C8_TiedIsTerminal ==
    /\ [](Tied(m) => (m.winner = None /\ is_finished(m)))
    /\ [][Tied(m) =>
             /\ m' = m
             /\ op' = "make_move" => ret' = Finished]_vars

\* a move was tried on a tied match and answered Finished
C8_Witness ==
    /\ Tied(m)
    /\ m.winner = None
    /\ op = "make_move"
    /\ ret = Finished

\* C9: for every size N >= 1 and every board, check_winner returns a mark
\* iff some full row, column or diagonal holds N equal marks, the mark it
\* returns is that of such a line, and it returns none otherwise
C9_CheckWinnerIffLine ==
    op = "check_winner" =>
        /\ out # None <=> HasLine(board, size)
        /\ out # None => (out \in {"X", "O"} /\ HasLineOf(board, size, out))

\* a 3x3 board whose only complete line is the anti-diagonal, in O
C9_Witness ==
    /\ op = "check_winner"
    /\ size = 3
    /\ out = "O"
    /\ \A L \in Lines(size) :
          LineOf(board, size, L, "O") <=> L = {<<2, 0>>, <<1, 1>>, <<0, 2>>}
    /\ ~HasLineOf(board, size, "X")

\* C10: for every size N >= 1 and every board of N*N bytes, is_full is true
\* iff no byte decodes to Empty, that is iff every byte is 1 or 2
C10_IsFullIffNoEmpty ==
    op = "is_full" => (out <=> \A i \in 1..(size * size) : board[i] \in {1, 2})

\* a board without a zero byte that is not full: one byte is not a mark
C10_Witness ==
    /\ op = "is_full"
    /\ size = 3
    /\ out = FALSE
    /\ \A i \in DOMAIN board : board[i] # 0
    /\ Cardinality({i \in DOMAIN board : board[i] \notin {1, 2}}) = 1

----------------------------------------------------------------------------
\* validation.rs: ValidationInput.  An Option is a sequence of length at
\* most one: NoneOpt is Option::None, Some(v) is Option::Some(v)

NoneOpt == <<>>
Some(v) == <<v>>
IsSome(o) == o # <<>>
Unwrap(o) == o[1]

\* board.rs: Coordinate { x: u8, y: u8 }
Coord(x, y) == [x |-> x, y |-> y]

\* ValidationInput::new
ValidationInputNew ==
    [board |-> NoneOpt, coordinates |-> NoneOpt, size |-> NoneOpt,
     ship_length |-> NoneOpt, fleet_composition |-> NoneOpt, ships |-> NoneOpt]

\* ValidationInput::with_board
with_board(in, b) == [in EXCEPT !.board = Some(b)]

\* ValidationInput::with_coordinates
with_coordinates(in, cs) == [in EXCEPT !.coordinates = Some(cs)]

\* ValidationInput::with_size
with_size(in, sz) == [in EXCEPT !.size = Some(sz)]

\* ValidationInput::with_ship_length
with_ship_length(in, n) == [in EXCEPT !.ship_length = Some(n)]

\* ValidationInput::with_fleet_composition
with_fleet_composition(in, comp) == [in EXCEPT !.fleet_composition = Some(comp)]

\* ValidationInput::with_ships
with_ships(in, ss) == [in EXCEPT !.ships = Some(ss)]

\* input.size.unwrap_or(BOARD_SIZE)
SizeOrDefault(in) == IF IsSome(in.size) THEN Unwrap(in.size) ELSE BOARD_SIZE

\* a panic (index out of range) that aborts the call
Panic == [kind |-> "Panic", msg |-> "index out of bounds"]

\* the first of the indices at which a loop body returns, 0 when there is
\* none and the loop runs to its end
FirstIndex(hits) ==
    IF hits = {} THEN 0
    ELSE CHOOSE i \in hits : \A j \in hits : i <= j

----------------------------------------------------------------------------
\* validation.rs: the strategies.  Each returns Ok or an error

\* BoundsValidationStrategy::validate
BoundsValidate(in) ==
    IF ~IsSome(in.coordinates)
    THEN Invalid("coordinates required for bounds validation")
    ELSE LET cs == Unwrap(in.coordinates)
             sz == SizeOrDefault(in)
         IN  IF \E i \in 1..Len(cs) : cs[i].x >= sz \/ cs[i].y >= sz
             THEN Invalid("coordinate out of bounds")
             ELSE Ok

\* UniquenessValidationStrategy::validate: BTreeSet::insert returns false
\* for a value already in the set
UniquenessValidate(in) ==
    IF ~IsSome(in.coordinates)
    THEN Invalid("coordinates required for uniqueness validation")
    ELSE LET cs == Unwrap(in.coordinates)
             InSetBefore(i) == cs[i] \in {cs[j] : j \in 1..(i - 1)}
         IN  IF FirstIndex({i \in 1..Len(cs) : InSetBefore(i)}) # 0
             THEN Invalid("duplicate coordinate")
             ELSE Ok

\* faulty variant: the board is unwrapped without being looked at first
OverlapValidate_unwrap_board(in) ==
    IF ~IsSome(in.board) THEN Panic
    ELSE IF ~IsSome(in.coordinates)
    THEN Invalid("coordinates required for overlap validation")
    ELSE LET b == Unwrap(in.board)
             cs == Unwrap(in.coordinates)
             sz == SizeOrDefault(in)
             Stops(i) == get(b, sz, cs[i].x, cs[i].y) # "Empty"
             k == FirstIndex({i \in 1..Len(cs) : Stops(i)})
         IN  IF k = 0 THEN Ok
             ELSE IF get(b, sz, cs[k].x, cs[k].y) = "Panic" THEN Panic
             ELSE Invalid("cell already occupied")

\* OverlapValidationStrategy::validate: the first coordinate that is read
\* outside the Vec panics, the first that is not Empty fails
OverlapValidate(in) ==
    IF ~IsSome(in.board)
    THEN Invalid("board required for overlap validation")
    ELSE IF ~IsSome(in.coordinates)
    THEN Invalid("coordinates required for overlap validation")
    ELSE LET b == Unwrap(in.board)
             cs == Unwrap(in.coordinates)
             sz == SizeOrDefault(in)
             Stops(i) == get(b, sz, cs[i].x, cs[i].y) # "Empty"
             k == FirstIndex({i \in 1..Len(cs) : Stops(i)})
         IN  IF k = 0 THEN Ok
             ELSE IF get(b, sz, cs[k].x, cs[k].y) = "Panic" THEN Panic
             ELSE Invalid("cell already occupied")

\* AdjacencyValidationStrategy::validate
AdjacencyValidate(in) ==
    IF ~IsSome(in.board)
    THEN Invalid("board required for adjacency validation")
    ELSE IF ~IsSome(in.coordinates)
    THEN Invalid("coordinates required for adjacency validation")
    ELSE Ok

\* coordinates.iter().all(|coord| coord.x == coordinates[0].x)
SameX(cs) == \A i \in 1..Len(cs) : cs[i].x = cs[1].x

\* coordinates.iter().all(|coord| coord.y == coordinates[0].y)
SameY(cs) == \A i \in 1..Len(cs) : cs[i].y = cs[1].y

\* faulty variant: inclusive or instead of exclusive or
StraightLineValidate_or(in) ==
    IF ~IsSome(in.coordinates)
    THEN Invalid("coordinates required for straight line validation")
    ELSE LET cs == Unwrap(in.coordinates)
         IN  IF Len(cs) <= 1 THEN Ok
             ELSE IF ~(SameX(cs) \/ SameY(cs))
             THEN Invalid("ship must be straight (horizontal or vertical)")
             ELSE Ok

\* StraightLineValidationStrategy::validate
StraightLineValidate(in) ==
    IF ~IsSome(in.coordinates)
    THEN Invalid("coordinates required for straight line validation")
    ELSE LET cs == Unwrap(in.coordinates)
         IN  IF Len(cs) <= 1 THEN Ok
             ELSE IF ~(SameX(cs) # SameY(cs))
             THEN Invalid("ship must be straight (horizontal or vertical)")
             ELSE Ok

\* slice::sort_by_key, a stable sort, with key[i] the key of cs[i]:
\* element i goes behind every element with a smaller key and every earlier
\* element with the same key
SortByKey(cs, key) ==
    LET n == Len(cs)
        Rank(i) == Cardinality({j \in 1..n :
                       \/ key[j] < key[i]
                       \/ (key[j] = key[i] /\ j < i)}) + 1
    IN  [r \in 1..n |-> cs[CHOOSE i \in 1..n : Rank(i) = r]]

\* the key closures of ContiguityValidationStrategy
KeyX(c) == c.x
KeyY(c) == c.y

\* faulty variant: the coordinates are not sorted before the windows
ContiguityValidate_unsorted(in) ==
    IF ~IsSome(in.coordinates)
    THEN Invalid("coordinates required for contiguity validation")
    ELSE LET cs == Unwrap(in.coordinates)
         IN  IF Len(cs) <= 1 THEN Ok
             ELSE LET same_x == SameX(cs)
                      step == IF same_x THEN <<0, 1>> ELSE <<1, 0>>
                  IN  IF \E w \in 1..(Len(cs) - 1) :
                            <<cs[w + 1].x - cs[w].x,
                              cs[w + 1].y - cs[w].y>> # step
                      THEN Invalid("ship must be contiguous")
                      ELSE Ok

\* faulty variant: only the difference along the sorted axis is compared
ContiguityValidate_axis_only(in) ==
    IF ~IsSome(in.coordinates)
    THEN Invalid("coordinates required for contiguity validation")
    ELSE LET cs == Unwrap(in.coordinates)
         IN  IF Len(cs) <= 1 THEN Ok
             ELSE LET same_x == SameX(cs)
                      sorted ==
                          IF same_x
                          THEN SortByKey(cs, [i \in 1..Len(cs) |-> KeyY(cs[i])])
                          ELSE SortByKey(cs, [i \in 1..Len(cs) |-> KeyX(cs[i])])
                  IN  IF \E w \in 1..(Len(sorted) - 1) :
                            IF same_x
                            THEN sorted[w + 1].y - sorted[w].y # 1
                            ELSE sorted[w + 1].x - sorted[w].x # 1
                      THEN Invalid("ship must be contiguous")
                      ELSE Ok

\* ContiguityValidationStrategy::validate; the differences are taken in
\* i16, where two u8 never overflow
ContiguityValidate(in) ==
    IF ~IsSome(in.coordinates)
    THEN Invalid("coordinates required for contiguity validation")
    ELSE LET cs == Unwrap(in.coordinates)
         IN  IF Len(cs) <= 1 THEN Ok
             ELSE LET same_x == SameX(cs)
                      sorted ==
                          IF same_x
                          THEN SortByKey(cs, [i \in 1..Len(cs) |-> KeyY(cs[i])])
                          ELSE SortByKey(cs, [i \in 1..Len(cs) |-> KeyX(cs[i])])
                      step == IF same_x THEN <<0, 1>> ELSE <<1, 0>>
                  IN  IF \E w \in 1..(Len(sorted) - 1) :
                            <<sorted[w + 1].x - sorted[w].x,
                              sorted[w + 1].y - sorted[w].y>> # step
                      THEN Invalid("ship must be contiguous")
                      ELSE Ok

\* `as u8`: a usize is narrowed to its low 8 bits
AsU8(n) == n % 256

\* faulty variant: a length of six is let through
ShipLengthValidate_up_to_six(in) ==
    LET length == IF IsSome(in.ship_length) THEN in.ship_length
                  ELSE IF IsSome(in.coordinates)
                  THEN Some(AsU8(Len(Unwrap(in.coordinates))))
                  ELSE NoneOpt
    IN  IF ~IsSome(length)
        THEN Invalid("ship length required for length validation")
        ELSE IF Unwrap(length) < 2 \/ Unwrap(length) > 6
        THEN Invalid("ship length must be between 2 and 5")
        ELSE Ok

\* ShipLengthValidationStrategy::validate
ShipLengthValidate(in) ==
    LET length == IF IsSome(in.ship_length) THEN in.ship_length
                  ELSE IF IsSome(in.coordinates)
                  THEN Some(AsU8(Len(Unwrap(in.coordinates))))
                  ELSE NoneOpt
    IN  IF ~IsSome(length)
        THEN Invalid("ship length required for length validation")
        ELSE IF Unwrap(length) < 2 \/ Unwrap(length) > 5
        THEN Invalid("ship length must be between 2 and 5")
        ELSE Ok

\* faulty variant: the bucket of length 3 is compared with 1
FleetCompositionValidate_three_once(in) ==
    IF ~IsSome(in.fleet_composition)
    THEN Invalid("fleet composition required for composition validation")
    ELSE LET composition == Unwrap(in.fleet_composition)
         IN  IF composition[4] # 1
             THEN Invalid("need exactly 1 ship of length 5")
             ELSE IF composition[3] # 1
             THEN Invalid("need exactly 1 ship of length 4")
             ELSE IF composition[2] # 1
             THEN Invalid("need exactly 2 ships of length 3")
             ELSE IF composition[1] # 1
             THEN Invalid("need exactly 1 ship of length 2")
             ELSE Ok

\* FleetCompositionValidationStrategy::validate; composition[k] of the
\* code is composition[k + 1] here
FleetCompositionValidate(in) ==
    IF ~IsSome(in.fleet_composition)
    THEN Invalid("fleet composition required for composition validation")
    ELSE LET composition == Unwrap(in.fleet_composition)
         IN  IF composition[4] # 1
             THEN Invalid("need exactly 1 ship of length 5")
             ELSE IF composition[3] # 1
             THEN Invalid("need exactly 1 ship of length 4")
             ELSE IF composition[2] # 2
             THEN Invalid("need exactly 2 ships of length 3")
             ELSE IF composition[1] # 1
             THEN Invalid("need exactly 1 ship of length 2")
             ELSE Ok

\* ShipOverlapValidationStrategy::validate
ShipOverlapValidate(in) ==
    IF ~IsSome(in.ships)
    THEN Invalid("ships required for ship overlap validation")
    ELSE LET ships == Unwrap(in.ships)
         IN  IF \E i \in 1..Len(ships) : \E j \in (i + 1)..Len(ships) :
                   \E a \in 1..Len(ships[i]) : \E b \in 1..Len(ships[j]) :
                      ships[i][a] = ships[j][b]
             THEN Invalid("ships overlap")
             ELSE Ok

\* i16::abs
Abs(n) == IF n < 0 THEN -n ELSE n

\* faulty variant: only orthogonal neighbours count as adjacent
ShipAdjacencyValidate_orthogonal(in) ==
    IF ~IsSome(in.ships)
    THEN Invalid("ships required for ship adjacency validation")
    ELSE LET ships == Unwrap(in.ships)
         IN  IF \E i \in 1..Len(ships) : \E j \in (i + 1)..Len(ships) :
                   \E a \in 1..Len(ships[i]) : \E b \in 1..Len(ships[j]) :
                      LET dx == Abs(ships[i][a].x - ships[j][b].x)
                          dy == Abs(ships[i][a].y - ships[j][b].y)
                      IN  dx + dy = 1
             THEN Invalid("ships are adjacent")
             ELSE Ok

\* ShipAdjacencyValidationStrategy::validate
ShipAdjacencyValidate(in) ==
    IF ~IsSome(in.ships)
    THEN Invalid("ships required for ship adjacency validation")
    ELSE LET ships == Unwrap(in.ships)
         IN  IF \E i \in 1..Len(ships) : \E j \in (i + 1)..Len(ships) :
                   \E a \in 1..Len(ships[i]) : \E b \in 1..Len(ships[j]) :
                      LET dx == Abs(ships[i][a].x - ships[j][b].x)
                          dy == Abs(ships[i][a].y - ships[j][b].y)
                      IN  dx <= 1 /\ dy <= 1 /\ ~(dx = 0 /\ dy = 0)
             THEN Invalid("ships are adjacent")
             ELSE Ok

----------------------------------------------------------------------------
\* validation.rs: ValidationContext.  A context is the sequence of its
\* strategies, each written as the string its name() returns

StrategyNames ==
    {"BoundsValidation", "UniquenessValidation", "OverlapValidation",
     "AdjacencyValidation", "StraightLineValidation", "ContiguityValidation",
     "ShipLengthValidation", "FleetCompositionValidation",
     "ShipOverlapValidation", "ShipAdjacencyValidation"}

\* strategy.validate(input): the dynamic dispatch on the trait object
StrategyValidate(name, in) ==
    CASE name = "BoundsValidation" -> BoundsValidate(in)
      [] name = "UniquenessValidation" -> UniquenessValidate(in)
      [] name = "OverlapValidation" -> OverlapValidate(in)
      [] name = "AdjacencyValidation" -> AdjacencyValidate(in)
      [] name = "StraightLineValidation" -> StraightLineValidate(in)
      [] name = "ContiguityValidation" -> ContiguityValidate(in)
      [] name = "ShipLengthValidation" -> ShipLengthValidate(in)
      [] name = "FleetCompositionValidation" -> FleetCompositionValidate(in)
      [] name = "ShipOverlapValidation" -> ShipOverlapValidate(in)
      [] name = "ShipAdjacencyValidation" -> ShipAdjacencyValidate(in)

\* ValidationContext::new
ValidationContextNew == <<>>

\* ValidationContext::add_strategy
add_strategy(c, name) == Append(c, name)

\* ValidationContext::strategy_names
strategy_names(c) == c

\* faulty variant: every strategy runs and the last error is returned
RECURSIVE validate_from_keep_going(_, _, _, _, _)
validate_from_keep_going(c, in, i, tr, err) ==
    IF i > Len(c) THEN [ret |-> err, trace |-> tr]
    ELSE LET r == StrategyValidate(c[i], in)
         IN  validate_from_keep_going(c, in, i + 1, Append(tr, c[i]),
                                      IF r # Ok THEN r ELSE err)

\* faulty variant of validate
validate_keep_going(c, in) == validate_from_keep_going(c, in, 1, <<>>, Ok)

\* the loop of ValidationContext::validate from strategy i on; trace is
\* the strategies whose validate has been called so far
RECURSIVE validate_from(_, _, _, _)
validate_from(c, in, i, tr) ==
    IF i > Len(c) THEN [ret |-> Ok, trace |-> tr]
    ELSE LET r == StrategyValidate(c[i], in)
         IN  IF r # Ok
             THEN [ret |-> r, trace |-> Append(tr, c[i])]
             ELSE validate_from(c, in, i + 1, Append(tr, c[i]))

\* ValidationContext::validate
validate(c, in) == validate_from(c, in, 1, <<>>)

\* faulty variant: the occupied-cell rule runs before the bounds rule
ship_placement_overlap_first ==
    add_strategy(add_strategy(add_strategy(add_strategy(add_strategy(
    add_strategy(add_strategy(ValidationContextNew,
        "OverlapValidation"), "BoundsValidation"), "UniquenessValidation"),
        "AdjacencyValidation"), "StraightLineValidation"),
        "ContiguityValidation"), "ShipLengthValidation")

\* faulty variant: the adjacency placeholder runs before the overlap rule
ship_placement_adjacency_first ==
    add_strategy(add_strategy(add_strategy(add_strategy(add_strategy(
    add_strategy(add_strategy(ValidationContextNew,
        "BoundsValidation"), "UniquenessValidation"), "AdjacencyValidation"),
        "OverlapValidation"), "StraightLineValidation"),
        "ContiguityValidation"), "ShipLengthValidation")

\* ValidationContext::ship_placement
ship_placement ==
    add_strategy(add_strategy(add_strategy(add_strategy(add_strategy(
    add_strategy(add_strategy(ValidationContextNew,
        "BoundsValidation"), "UniquenessValidation"), "OverlapValidation"),
        "AdjacencyValidation"), "StraightLineValidation"),
        "ContiguityValidation"), "ShipLengthValidation")

\* ValidationContext::fleet_composition
fleet_composition ==
    add_strategy(add_strategy(add_strategy(ValidationContextNew,
        "FleetCompositionValidation"), "ShipOverlapValidation"),
        "ShipAdjacencyValidation")

\* faulty variant: uniqueness runs before bounds
coordinates_only_unique_first ==
    add_strategy(add_strategy(ValidationContextNew,
        "UniquenessValidation"), "BoundsValidation")

\* ValidationContext::coordinates_only
coordinates_only ==
    add_strategy(add_strategy(ValidationContextNew,
        "BoundsValidation"), "UniquenessValidation")

\* validate_ship_placement
validate_ship_placement(b, cs, sz) ==
    validate(ship_placement,
             with_size(with_coordinates(with_board(ValidationInputNew, b),
                                        cs), sz))

\* faulty variant: the number of ships is compared with the counts
validate_fleet_composition_counted(ship_counts, ss) ==
    IF Len(ss) # ship_counts[1] + ship_counts[2] + ship_counts[3] + ship_counts[4]
    THEN [ret |-> Invalid("wrong number of ships"), trace |-> <<>>]
    ELSE validate(fleet_composition,
                  with_ships(with_fleet_composition(ValidationInputNew,
                                                    ship_counts), ss))

\* validate_fleet_composition
validate_fleet_composition(ship_counts, ss) ==
    validate(fleet_composition,
             with_ships(with_fleet_composition(ValidationInputNew,
                                               ship_counts), ss))

\* validate_coordinates
validate_coordinates(cs, sz) ==
    validate(coordinates_only,
             with_size(with_coordinates(ValidationInputNew, cs), sz))

----------------------------------------------------------------------------
\* Inputs of the validation specifications

\* coordinates take the values 0..MaxXY
MaxXY == 2

\* longest coordinate list handed to a context
MaxCtxLen == 2

\* most strategies added to a context by hand
MaxStrategies == 2

\* largest count in a bucket of a fleet composition
MaxShipCount == 2

\* all sequences over S of length at most n
SeqsUpTo(S, n) == UNION {[1..k -> S] : k \in 0..n}

Coords == {Coord(x, y) : x \in 0..MaxXY, y \in 0..MaxXY}

\* the boards handed to a context: an empty one and one with a mark
CtxBoards ==
    {new_zeroed(BOARD_SIZE), set(new_zeroed(BOARD_SIZE), BOARD_SIZE, 0, 0, "X")}

\* the sizes handed to a context
CtxSizes == {BOARD_SIZE - 1, BOARD_SIZE}

\* the compositions: every count array over 1..MaxShipCount
Compositions == [1..4 -> 1..MaxShipCount]

\* the fleets handed to a context: ships of one cell on the row y = 0
CtxFleets == SeqsUpTo({<<Coord(x, 0)>> : x \in 0..MaxXY}, 2)

\* the inputs a caller builds for a placement of up to len coordinates, for
\* a fleet, and the incomplete ones
CtxInputs(len) ==
    {ValidationInputNew}
    \cup {with_coordinates(ValidationInputNew, cs) : cs \in SeqsUpTo(Coords, len)}
    \cup {with_size(with_coordinates(with_board(ValidationInputNew, b), cs), sz) :
             b \in CtxBoards, cs \in SeqsUpTo(Coords, len), sz \in CtxSizes}
    \cup {with_ships(with_fleet_composition(ValidationInputNew, comp), ss) :
             comp \in Compositions, ss \in CtxFleets}

----------------------------------------------------------------------------
\* SpecCtx: a ValidationContext built by add_strategy or a preset, and
\* validate and the convenience functions applied to every input

InitCtx ==
    /\ m = MatchNew("match-1", "alice", "bob")
    /\ op = "none" /\ caller = None /\ inb = TRUE /\ ret = Ok /\ mover = None /\ moves = 0
    /\ size = BOARD_SIZE /\ board = new_zeroed(BOARD_SIZE) /\ out = None
    /\ cellArg = "Empty" /\ byteArg = 0
    /\ vin \in CtxInputs(MaxCtxLen)
    /\ ctx = ValidationContextNew
    /\ trace = <<>>
    /\ app = None /\ emitted = <<>> /\ ended = {} /\ created = {} /\ pb = None

AddStrategy(name) ==
    /\ Len(ctx) < MaxStrategies
    /\ op' = "add_strategy"
    /\ ctx' = add_strategy(ctx, name)
    /\ out' = None /\ trace' = <<>>
    /\ UNCHANGED <<matchVars, boardVars, cellVars, vin, appVars, pb>>

Preset(c) ==
    /\ op' = "preset"
    /\ ctx' = c
    /\ out' = None /\ trace' = <<>>
    /\ UNCHANGED <<matchVars, boardVars, cellVars, vin, appVars, pb>>

Validate ==
    /\ op' = "validate"
    /\ \E r \in {validate(ctx, vin)} : out' = r.ret /\ trace' = r.trace
    /\ UNCHANGED <<matchVars, boardVars, cellVars, vin, ctx, appVars, pb>>

ValidateShipPlacement ==
    /\ IsSome(vin.board) /\ IsSome(vin.coordinates) /\ IsSome(vin.size)
    /\ op' = "validate_ship_placement"
    /\ \E r \in {validate_ship_placement(Unwrap(vin.board),
                     Unwrap(vin.coordinates), Unwrap(vin.size))} :
          out' = r.ret /\ trace' = r.trace
    /\ UNCHANGED <<matchVars, boardVars, cellVars, vin, ctx, appVars, pb>>

ValidateFleetComposition ==
    /\ IsSome(vin.fleet_composition) /\ IsSome(vin.ships)
    /\ op' = "validate_fleet_composition"
    /\ \E r \in {validate_fleet_composition(Unwrap(vin.fleet_composition),
                     Unwrap(vin.ships))} :
          out' = r.ret /\ trace' = r.trace
    /\ UNCHANGED <<matchVars, boardVars, cellVars, vin, ctx, appVars, pb>>

ValidateCoordinates ==
    /\ IsSome(vin.coordinates) /\ IsSome(vin.size)
    /\ op' = "validate_coordinates"
    /\ \E r \in {validate_coordinates(Unwrap(vin.coordinates),
                     Unwrap(vin.size))} :
          out' = r.ret /\ trace' = r.trace
    /\ UNCHANGED <<matchVars, boardVars, cellVars, vin, ctx, appVars, pb>>

NextCtx ==
    \/ \E name \in StrategyNames : AddStrategy(name)
    \/ \E c \in {ship_placement, fleet_composition, coordinates_only} : Preset(c)
    \/ Validate
    \/ ValidateShipPlacement
    \/ ValidateFleetComposition
    \/ ValidateCoordinates

SpecCtx == InitCtx /\ [][NextCtx]_vars

----------------------------------------------------------------------------
\* C11: validate calls the strategies of the context in insertion order and
\* stops at the first one that fails: the strategies evaluated are exactly
\* those up to and including the earliest failing one, the result is that
\* strategy's error, and the result is Ok iff every strategy succeeds (so
\* an empty context returns Ok)
C11_ValidateStopsAtFirstFailure ==
    op = "validate" =>
        LET Fails(i) == StrategyValidate(ctx[i], vin) # Ok
            Earliest(k) == Fails(k) /\ \A j \in 1..(k - 1) : ~Fails(j)
        IN  /\ \A k \in 1..Len(ctx) :
                  Earliest(k) => /\ out = StrategyValidate(ctx[k], vin)
                                 /\ trace = SubSeq(ctx, 1, k)
            /\ (out = Ok) <=> (\A i \in 1..Len(ctx) : ~Fails(i))
            /\ (out = Ok) => trace = ctx
            /\ ctx = <<>> => out = Ok

\* a context of two strategies that both fail on the input, with different
\* errors: only the first was evaluated
C11_Witness ==
    /\ op = "validate"
    /\ Len(ctx) = 2
    /\ StrategyValidate(ctx[1], vin) # Ok
    /\ StrategyValidate(ctx[2], vin) # Ok
    /\ StrategyValidate(ctx[1], vin) # StrategyValidate(ctx[2], vin)
    /\ trace = <<ctx[1]>>
    /\ out = StrategyValidate(ctx[1], vin)

----------------------------------------------------------------------------
\* The rules in the words of the specification

\* some coordinate of the list lies outside [0, sz) x [0, sz)
HasOutOfBounds(cs, sz) == \E i \in 1..Len(cs) : ~(cs[i].x < sz /\ cs[i].y < sz)

\* some coordinate value occurs twice in the list
HasDuplicate(cs) == \E i, j \in 1..Len(cs) : i # j /\ cs[i] = cs[j]

\* two ships at different positions of the list share a coordinate
FleetOverlaps(ss) ==
    \E i, j \in 1..Len(ss) :
        i # j /\ \E a \in 1..Len(ss[i]) : \E b \in 1..Len(ss[j]) :
                    ss[i][a] = ss[j][b]

\* the composition every fleet must have, indexed by the lengths 2, 3, 4, 5
RequiredComposition == <<1, 2, 1, 1>>

\* the messages of the composition rule
CompositionMessages ==
    {"need exactly 1 ship of length 2", "need exactly 2 ships of length 3",
     "need exactly 1 ship of length 4", "need exactly 1 ship of length 5"}

\* the error of the earliest rule of the list that the input violates, Ok
\* when it violates none
EarliestError(rules, in) ==
    IF \A i \in 1..Len(rules) : StrategyValidate(rules[i], in) = Ok THEN Ok
    ELSE LET k == CHOOSE i \in 1..Len(rules) :
                     /\ StrategyValidate(rules[i], in) # Ok
                     /\ \A j \in 1..(i - 1) : StrategyValidate(rules[j], in) = Ok
         IN  StrategyValidate(rules[k], in)

PlacementRules ==
    <<"BoundsValidation", "UniquenessValidation", "OverlapValidation",
      "AdjacencyValidation", "StraightLineValidation", "ContiguityValidation",
      "ShipLengthValidation">>

FleetRules ==
    <<"FleetCompositionValidation", "ShipOverlapValidation",
      "ShipAdjacencyValidation">>

CoordinateRules == <<"BoundsValidation", "UniquenessValidation">>

\* C12: the placement preset holds bounds, uniqueness, overlap, the
\* adjacency no-op, straight-line, contiguity and ship-length in this order,
\* the fleet preset holds fleet-composition, ship-overlap and ship-adjacency,
\* the coordinates-only preset holds bounds and uniqueness; so the combined
\* routines return the error of the earliest rule violated: an out-of-bounds
\* and duplicated list yields the bounds error, a fleet with a wrong count
\* and overlapping ships yields a composition error
C12_PresetsReportEarliestRule ==
    /\ strategy_names(ship_placement) = PlacementRules
    /\ strategy_names(fleet_composition) = FleetRules
    /\ strategy_names(coordinates_only) = CoordinateRules
    /\ op = "validate_ship_placement" =>
          /\ out = EarliestError(PlacementRules, vin)
          /\ (/\ HasOutOfBounds(Unwrap(vin.coordinates), Unwrap(vin.size))
              /\ HasDuplicate(Unwrap(vin.coordinates)))
                => out = Invalid("coordinate out of bounds")
    /\ op = "validate_coordinates" =>
          /\ out = EarliestError(CoordinateRules, vin)
          /\ (/\ HasOutOfBounds(Unwrap(vin.coordinates), Unwrap(vin.size))
              /\ HasDuplicate(Unwrap(vin.coordinates)))
                => out = Invalid("coordinate out of bounds")
    /\ op = "validate_fleet_composition" =>
          /\ out = EarliestError(FleetRules, vin)
          /\ (/\ Unwrap(vin.fleet_composition) # RequiredComposition
              /\ FleetOverlaps(Unwrap(vin.ships)))
                => out.kind = "Invalid" /\ out.msg \in CompositionMessages

\* a placement whose list is out of bounds and duplicated, so that the
\* uniqueness rule fails as well: the bounds error is the one reported
C12_Witness ==
    /\ op = "validate_ship_placement"
    /\ HasOutOfBounds(Unwrap(vin.coordinates), Unwrap(vin.size))
    /\ HasDuplicate(Unwrap(vin.coordinates))
    /\ UniquenessValidate(vin) = Invalid("duplicate coordinate")
    /\ out = Invalid("coordinate out of bounds")
    /\ trace = <<"BoundsValidation">>

----------------------------------------------------------------------------
\* SpecFleet: the three fleet strategies applied to every fleet input

\* every count array over 0..MaxShipCount
FleetCounts == [1..4 -> 0..MaxShipCount]

\* longest ship of a fleet
MaxShipLen == 2

\* fleets of up to two ships of up to len cells, and fleets of three ships
\* of one cell
Fleets(len) ==
    SeqsUpTo(SeqsUpTo(Coords, len), 2)
    \cup [1..3 -> {<<c>> : c \in Coords}]

FleetInputs(len) ==
    {ValidationInputNew}
    \cup {with_fleet_composition(ValidationInputNew, comp) : comp \in FleetCounts}
    \cup {with_ships(ValidationInputNew, ss) : ss \in Fleets(len)}

InitFleet ==
    /\ m = MatchNew("match-1", "alice", "bob")
    /\ op = "none" /\ caller = None /\ inb = TRUE /\ ret = Ok /\ mover = None /\ moves = 0
    /\ size = BOARD_SIZE /\ board = new_zeroed(BOARD_SIZE) /\ out = None
    /\ cellArg = "Empty" /\ byteArg = 0
    /\ vin \in FleetInputs(MaxShipLen)
    /\ ctx = ValidationContextNew
    /\ trace = <<>>
    /\ app = None /\ emitted = <<>> /\ ended = {} /\ created = {} /\ pb = None

FleetCompositionRule ==
    /\ op' = "FleetCompositionValidation"
    /\ out' = FleetCompositionValidate(vin)
    /\ UNCHANGED <<matchVars, boardVars, cellVars, valVars, appVars, pb>>

ShipOverlapRule ==
    /\ op' = "ShipOverlapValidation"
    /\ out' = ShipOverlapValidate(vin)
    /\ UNCHANGED <<matchVars, boardVars, cellVars, valVars, appVars, pb>>

ShipAdjacencyRule ==
    /\ op' = "ShipAdjacencyValidation"
    /\ out' = ShipAdjacencyValidate(vin)
    /\ UNCHANGED <<matchVars, boardVars, cellVars, valVars, appVars, pb>>

NextFleet == FleetCompositionRule \/ ShipOverlapRule \/ ShipAdjacencyRule

SpecFleet == InitFleet /\ [][NextFleet]_vars

\* the message that names bucket k (the ships of length k + 1)
BucketMessage(k) ==
    CASE k = 1 -> "need exactly 1 ship of length 2"
      [] k = 2 -> "need exactly 2 ships of length 3"
      [] k = 3 -> "need exactly 1 ship of length 4"
      [] k = 4 -> "need exactly 1 ship of length 5"

\* C13: the fleet composition rule succeeds iff the count array is exactly
\* [1,2,1,1]; for every other array it fails with an Invalid error whose
\* message names a bucket whose count deviates, and [2,2,1,1] names the
\* bucket of length 2
C13_CompositionIffRequired ==
    (op = "FleetCompositionValidation" /\ IsSome(vin.fleet_composition)) =>
        LET comp == Unwrap(vin.fleet_composition)
        IN  /\ (out = Ok) <=> (comp = RequiredComposition)
            /\ comp # RequiredComposition =>
                  /\ out.kind = "Invalid"
                  /\ \E k \in 1..4 : /\ comp[k] # RequiredComposition[k]
                                     /\ out.msg = BucketMessage(k)
            /\ comp = <<2, 2, 1, 1>> => out.msg = BucketMessage(1)

\* the array [2,2,1,1] was rejected for its bucket of length 2
C13_Witness ==
    /\ op = "FleetCompositionValidation"
    /\ vin.fleet_composition = Some(<<2, 2, 1, 1>>)
    /\ out = Invalid("need exactly 1 ship of length 2")

----------------------------------------------------------------------------
\* SpecCoords: the strategies on one coordinate list, and
\* validate_coordinates, applied to every list

\* longest coordinate list
MaxLen == 3

\* the inputs with a list of up to len coordinates, with and without a size
CoordInputs(len) ==
    {ValidationInputNew}
    \cup {with_coordinates(ValidationInputNew, cs) : cs \in SeqsUpTo(Coords, len)}
    \cup {with_size(with_coordinates(ValidationInputNew, cs), sz) :
             cs \in SeqsUpTo(Coords, len), sz \in 1..(MaxXY + 1)}

InitCoords ==
    /\ m = MatchNew("match-1", "alice", "bob")
    /\ op = "none" /\ caller = None /\ inb = TRUE /\ ret = Ok /\ mover = None /\ moves = 0
    /\ size = BOARD_SIZE /\ board = new_zeroed(BOARD_SIZE) /\ out = None
    /\ cellArg = "Empty" /\ byteArg = 0
    /\ vin \in CoordInputs(MaxLen)
    /\ ctx = ValidationContextNew
    /\ trace = <<>>
    /\ app = None /\ emitted = <<>> /\ ended = {} /\ created = {} /\ pb = None

StraightLineRule ==
    /\ op' = "StraightLineValidation"
    /\ out' = StraightLineValidate(vin)
    /\ UNCHANGED <<matchVars, boardVars, cellVars, valVars, appVars, pb>>

ContiguityRule ==
    /\ op' = "ContiguityValidation"
    /\ out' = ContiguityValidate(vin)
    /\ UNCHANGED <<matchVars, boardVars, cellVars, valVars, appVars, pb>>

NextCoords == StraightLineRule \/ ContiguityRule \/ ValidateCoordinates

SpecCoords == InitCoords /\ [][NextCoords]_vars

\* all coordinates of the list have the same x, the same y
AllShareX(cs) == \A i, j \in 1..Len(cs) : cs[i].x = cs[j].x
AllShareY(cs) == \A i, j \in 1..Len(cs) : cs[i].y = cs[j].y

\* C14: the straight-line rule passes a list of 0 or 1 coordinates; a list
\* of two or more passes iff exactly one of "all share x" and "all share y"
\* holds, so a diagonal or L-shaped list fails and so does a list of two or
\* more identical coordinates
C14_StraightIffExactlyOneAxis ==
    (op = "StraightLineValidation" /\ IsSome(vin.coordinates)) =>
        LET cs == Unwrap(vin.coordinates)
        IN  /\ Len(cs) <= 1 => out = Ok
            /\ Len(cs) >= 2 =>
                  /\ (out = Ok) <=> (AllShareX(cs) # AllShareY(cs))
                  /\ out # Ok =>
                        out = Invalid("ship must be straight (horizontal or vertical)")
                  /\ (\A i \in 1..Len(cs) : cs[i] = cs[1]) => out # Ok

\* a list of two or more identical coordinates was rejected
C14_Witness ==
    /\ op = "StraightLineValidation"
    /\ IsSome(vin.coordinates)
    /\ Len(Unwrap(vin.coordinates)) >= 2
    /\ \A i \in 1..Len(Unwrap(vin.coordinates)) :
          Unwrap(vin.coordinates)[i] = Unwrap(vin.coordinates)[1]
    /\ out = Invalid("ship must be straight (horizontal or vertical)")

\* the values v[1..n] are n consecutive numbers, each taken once
IsRun(v, n) ==
    /\ \A i, j \in 1..n : i # j => v[i] # v[j]
    /\ \A i, j \in 1..n : v[i] - v[j] < n

\* the coordinates lie on one line and are consecutive along it
IsContiguousLine(cs) ==
    \/ AllShareX(cs) /\ IsRun([i \in 1..Len(cs) |-> cs[i].y], Len(cs))
    \/ AllShareY(cs) /\ IsRun([i \in 1..Len(cs) |-> cs[i].x], Len(cs))

\* the injective maps of 1..n onto itself
Perms(n) == {f \in [1..n -> 1..n] : \A i, j \in 1..n : i # j => f[i] # f[j]}

\* C15: for two or more coordinates the contiguity rule passes iff, sorted
\* along the shared axis, consecutive coordinates differ by exactly one
\* along that axis and zero along the other; gapped, diagonal and duplicated
\* lists get the contiguity error, and the verdict is the same for every
\* order of the same coordinates
C15_ContiguousIffRun ==
    (op = "ContiguityValidation" /\ IsSome(vin.coordinates)) =>
        LET cs == Unwrap(vin.coordinates)
        IN  Len(cs) >= 2 =>
              /\ (out = Ok) <=> IsContiguousLine(cs)
              /\ out # Ok => out = Invalid("ship must be contiguous")
              /\ HasDuplicate(cs) => out # Ok
              /\ \A f \in Perms(Len(cs)) :
                    ContiguityValidate(
                        with_coordinates(vin, [i \in 1..Len(cs) |-> cs[f[i]]]))
                      = out

\* three cells of a line supplied out of order were accepted
C15_Witness ==
    /\ op = "ContiguityValidation"
    /\ IsSome(vin.coordinates)
    /\ Len(Unwrap(vin.coordinates)) = 3
    /\ Unwrap(vin.coordinates)[2].y > Unwrap(vin.coordinates)[3].y
    /\ Unwrap(vin.coordinates)[3].y > Unwrap(vin.coordinates)[1].y
    /\ out = Ok

\* C16: validate_coordinates succeeds iff every coordinate has x < size and
\* y < size and no coordinate value occurs twice; a list that breaks both
\* rules gets the bounds error
C16_CoordinatesInBoundsAndUnique ==
    op = "validate_coordinates" =>
        LET cs == Unwrap(vin.coordinates)
            sz == Unwrap(vin.size)
        IN  /\ (out = Ok) <=> (~HasOutOfBounds(cs, sz) /\ ~HasDuplicate(cs))
            /\ HasOutOfBounds(cs, sz) => out = Invalid("coordinate out of bounds")
            /\ (~HasOutOfBounds(cs, sz) /\ HasDuplicate(cs))
                  => out = Invalid("duplicate coordinate")

\* a list of three coordinates, two of them equal and one out of bounds,
\* got the bounds error
C16_Witness ==
    /\ op = "validate_coordinates"
    /\ Len(Unwrap(vin.coordinates)) = 3
    /\ HasOutOfBounds(Unwrap(vin.coordinates), Unwrap(vin.size))
    /\ HasDuplicate(Unwrap(vin.coordinates))
    /\ \E i \in 1..3 : /\ Unwrap(vin.coordinates)[i].x < Unwrap(vin.size)
                       /\ Unwrap(vin.coordinates)[i].y < Unwrap(vin.size)
    /\ out = Invalid("coordinate out of bounds")

----------------------------------------------------------------------------
\* max(|a.x - b.x|, |a.y - b.y|)
Chebyshev(a, b) ==
    LET dx == IF a.x >= b.x THEN a.x - b.x ELSE b.x - a.x
        dy == IF a.y >= b.y THEN a.y - b.y ELSE b.y - a.y
    IN  IF dx >= dy THEN dx ELSE dy

\* two ships at different positions of the list have a coordinate each at
\* Chebyshev distance exactly 1
FleetTouches(ss) ==
    \E i, j \in 1..Len(ss) :
        i # j /\ \E a \in 1..Len(ss[i]) : \E b \in 1..Len(ss[j]) :
                    Chebyshev(ss[i][a], ss[j][b]) = 1

\* C17: the ship adjacency rule fails iff two ships at different positions
\* of the list have a coordinate each at Chebyshev distance exactly 1;
\* coordinates shared by two ships do not by themselves fail it, and the
\* coordinates of one ship are never compared with each other
C17_AdjacentIffChebyshevOne ==
    (op = "ShipAdjacencyValidation" /\ IsSome(vin.ships)) =>
        /\ (out # Ok) <=> FleetTouches(Unwrap(vin.ships))
        /\ out # Ok => out = Invalid("ships are adjacent")

\* two ships that share a coordinate and touch nowhere passed
C17_Witness ==
    /\ op = "ShipAdjacencyValidation"
    /\ IsSome(vin.ships)
    /\ Len(Unwrap(vin.ships)) = 2
    /\ Len(Unwrap(vin.ships)[1]) = 2
    /\ FleetOverlaps(Unwrap(vin.ships))
    /\ ~FleetTouches(Unwrap(vin.ships))
    /\ out = Ok

----------------------------------------------------------------------------
\* SpecLength: ShipLengthValidationStrategy applied to every supplied
\* length and every number of coordinates

\* most coordinates in a list
MaxCount == 260

\* largest ship_length supplied
MaxGivenLen == 7

\* a list of n coordinates; the rule reads the length of the list only
CoordList(n) == [i \in 1..n |-> Coord(0, 0)]

\* the inputs with a ship_length of up to given or none, and a list of up
\* to count coordinates or none
LengthInputs(given, count) ==
    {[ValidationInputNew EXCEPT !.ship_length = sl, !.coordinates = cs] :
        sl \in {NoneOpt} \cup {Some(n) : n \in 0..given},
        cs \in {NoneOpt} \cup {Some(CoordList(n)) : n \in 0..count}}

InitLength ==
    /\ m = MatchNew("match-1", "alice", "bob")
    /\ op = "none" /\ caller = None /\ inb = TRUE /\ ret = Ok /\ mover = None /\ moves = 0
    /\ size = BOARD_SIZE /\ board = new_zeroed(BOARD_SIZE) /\ out = None
    /\ cellArg = "Empty" /\ byteArg = 0
    /\ vin \in LengthInputs(MaxGivenLen, MaxCount)
    /\ ctx = ValidationContextNew
    /\ trace = <<>>
    /\ app = None /\ emitted = <<>> /\ ended = {} /\ created = {} /\ pb = None

ShipLengthRule ==
    /\ op' = "ShipLengthValidation"
    /\ out' = ShipLengthValidate(vin)
    /\ UNCHANGED <<matchVars, boardVars, cellVars, valVars, appVars, pb>>

NextLength == ShipLengthRule

SpecLength == InitLength /\ [][NextLength]_vars

\* C18: the ship length rule succeeds iff the ship length lies in 2..5,
\* where the length is the supplied ship_length when present and otherwise
\* the number of supplied coordinates, for every number of coordinates,
\* those of 256 and more included
C18_LengthInRangeForEveryCount ==
    (op = "ShipLengthValidation"
        /\ (IsSome(vin.ship_length) \/ IsSome(vin.coordinates))) =>
        LET length == IF IsSome(vin.ship_length) THEN Unwrap(vin.ship_length)
                      ELSE Len(Unwrap(vin.coordinates))
        IN  (out = Ok) <=> (length \in 2..5)

----------------------------------------------------------------------------
\* SpecCell: Cell::to_u8 and Cell::from_u8 applied to every cell and byte

\* the largest u8
U8Max == 255

InitCell ==
    /\ m = MatchNew("match-1", "alice", "bob")
    /\ op = "none" /\ caller = None /\ inb = TRUE /\ ret = Ok /\ mover = None /\ moves = 0
    /\ size = BOARD_SIZE /\ board = new_zeroed(BOARD_SIZE) /\ out = None
    /\ cellArg \in Cells
    /\ byteArg \in 0..U8Max
    /\ vin = None /\ ctx = <<>> /\ trace = <<>>
    /\ app = None /\ emitted = <<>> /\ ended = {} /\ created = {} /\ pb = None

ToU8 ==
    /\ op' = "to_u8"
    /\ out' = to_u8(cellArg)
    /\ UNCHANGED <<matchVars, boardVars, cellVars, valVars, appVars, pb>>

FromU8 ==
    /\ op' = "from_u8"
    /\ out' = from_u8(byteArg)
    /\ UNCHANGED <<matchVars, boardVars, cellVars, valVars, appVars, pb>>

\* Cell::from_u8(c.to_u8())
DecodeEncoded ==
    /\ op' = "from_u8(to_u8)"
    /\ out' = from_u8(to_u8(cellArg))
    /\ UNCHANGED <<matchVars, boardVars, cellVars, valVars, appVars, pb>>

\* Cell::from_u8(b).to_u8()
EncodeDecoded ==
    /\ op' = "to_u8(from_u8)"
    /\ out' = to_u8(from_u8(byteArg))
    /\ UNCHANGED <<matchVars, boardVars, cellVars, valVars, appVars, pb>>

NextCell == ToU8 \/ FromU8 \/ DecodeEncoded \/ EncodeDecoded

SpecCell == InitCell /\ [][NextCell]_vars

\* C19: decoding an encoded cell gives the cell back, with Empty encoded as
\* 0, X as 1 and O as 2; to_u8 only produces 0, 1 and 2; every byte other
\* than 1 and 2 decodes to Empty, so encoding a decoded byte gives the byte
\* back exactly for the bytes 0, 1 and 2
C19_CellRoundTrip ==
    /\ op = "to_u8" =>
          /\ out \in {0, 1, 2}
          /\ out = (CASE cellArg = "Empty" -> 0
                      [] cellArg = "X" -> 1
                      [] cellArg = "O" -> 2)
    /\ op = "from_u8" =>
          /\ byteArg \notin {1, 2} => out = "Empty"
          /\ byteArg = 1 => out = "X"
          /\ byteArg = 2 => out = "O"
    /\ op = "from_u8(to_u8)" => out = cellArg
    /\ op = "to_u8(from_u8)" => ((out = byteArg) <=> (byteArg \in {0, 1, 2}))

\* a byte above 2 was decoded to Empty and encoded again, to another byte
C19_Witness ==
    /\ op = "to_u8(from_u8)"
    /\ byteArg > 2
    /\ out = 0

----------------------------------------------------------------------------
\* lib.rs: TicTacToeState { id_nonce, created_ms, active_match }.  A
\* PublicKey is written as the identity that holds it; created_ms is
\* written once and never read, and is left out

\* GameError::NotFound
NotFound(text) == [kind |-> "NotFound", msg |-> text]

\* Ok(String)
OkString(text) == [kind |-> "Ok", msg |-> text]

\* events.rs: Event
MatchCreated(id) == [kind |-> "MatchCreated", id |-> id]
MoveMade(id, x, y, player) ==
    [kind |-> "MoveMade", id |-> id, x |-> x, y |-> y, player |-> player]
GameWon(id, winner) == [kind |-> "GameWon", id |-> id, winner |-> winner]
GameTied(id) == [kind |-> "GameTied", id |-> id]
MatchEnded(id) == [kind |-> "MatchEnded", id |-> id]

\* TicTacToeState::init
init == [id_nonce |-> 0, active_match |-> NoneOpt]

\* PublicKey::from_executor_id: the runtime hands over the 32 bytes of the
\* executor, so the length check passes
from_executor_id(executor) == [ret |-> Ok, key |-> executor]

\* the strings handed to create_match as player2: the base58 encodings of
\* the keys of alice and bob, a string with a character outside the base58
\* alphabet, and the encoding of a key of 31 bytes
EncodedKeys == {"b58(alice)", "b58(bob)", "0OIl", "b58(31 bytes)"}

\* PublicKey::from_base58
from_base58(encoded) ==
    CASE encoded = "b58(alice)" -> [ret |-> Ok, key |-> "alice"]
      [] encoded = "b58(bob)" -> [ret |-> Ok, key |-> "bob"]
      [] encoded = "b58(31 bytes)" -> [ret |-> Invalid("key length"), key |-> None]
      [] OTHER -> [ret |-> Invalid("bad base58 key"), key |-> None]

\* TicTacToeState::next_id, with now the value env::time_now() returns:
\* the new nonce and the id formatted from it.  wrapping_add(1) is + 1:
\* the nonce stays at or below MaxMatches and never comes near 2^64
next_id(st, now) ==
    LET nonce == st.id_nonce + 1
    IN  [app |-> [st EXCEPT !.id_nonce = nonce],
         id |-> "match-" \o ToString(now) \o "-" \o ToString(nonce)]

\* faulty variant: a held, unfinished match does not stop the call
create_match_no_active_check(st, executor, player2, now) ==
    LET player1 == from_executor_id(executor)
        player2_pk == from_base58(player2)
    IN  IF player1.ret # Ok THEN [app |-> st, events |-> <<>>, ret |-> player1.ret]
        ELSE IF player2_pk.ret # Ok THEN [app |-> st, events |-> <<>>, ret |-> player2_pk.ret]
        ELSE IF player1.key = player2_pk.key
        THEN [app |-> st, events |-> <<>>, ret |-> Invalid("players must differ")]
        ELSE LET n == next_id(st, now)
             IN  [app |-> [n.app EXCEPT !.active_match =
                               Some(MatchNew(n.id, player1.key, player2_pk.key))],
                  events |-> <<MatchCreated(n.id)>>,
                  ret |-> OkString(n.id)]

\* faulty variant: the two keys are not compared
create_match_same_player(st, executor, player2, now) ==
    IF IsSome(st.active_match) /\ ~is_finished(Unwrap(st.active_match))
    THEN [app |-> st, events |-> <<>>, ret |-> Invalid("another match is active")]
    ELSE LET player1 == from_executor_id(executor)
             player2_pk == from_base58(player2)
         IN  IF player1.ret # Ok THEN [app |-> st, events |-> <<>>, ret |-> player1.ret]
             ELSE IF player2_pk.ret # Ok
             THEN [app |-> st, events |-> <<>>, ret |-> player2_pk.ret]
             ELSE LET n == next_id(st, now)
                  IN  [app |-> [n.app EXCEPT !.active_match =
                                    Some(MatchNew(n.id, player1.key, player2_pk.key))],
                       events |-> <<MatchCreated(n.id)>>,
                       ret |-> OkString(n.id)]

\* TicTacToeState::create_match
create_match(st, executor, player2, now) ==
    IF IsSome(st.active_match) /\ ~is_finished(Unwrap(st.active_match))
    THEN [app |-> st, events |-> <<>>, ret |-> Invalid("another match is active")]
    ELSE LET player1 == from_executor_id(executor)
             player2_pk == from_base58(player2)
         IN  IF player1.ret # Ok THEN [app |-> st, events |-> <<>>, ret |-> player1.ret]
             ELSE IF player2_pk.ret # Ok THEN [app |-> st, events |-> <<>>, ret |-> player2_pk.ret]
             ELSE IF player1.key = player2_pk.key
             THEN [app |-> st, events |-> <<>>, ret |-> Invalid("players must differ")]
             ELSE LET n == next_id(st, now)
                  IN  [app |-> [n.app EXCEPT !.active_match =
                                    Some(MatchNew(n.id, player1.key, player2_pk.key))],
                       events |-> <<MatchCreated(n.id)>>,
                  ret |-> OkString(n.id)]

\* faulty variant: a full board is reported as a tie before the winner is looked at
state_make_move_tie_first(st, executor, match_id, x, y) ==
    IF ~IsSome(st.active_match)
    THEN [app |-> st, events |-> <<>>, ret |-> Invalid("no active match")]
    ELSE IF match_id # Unwrap(st.active_match).id
    THEN [app |-> st, events |-> <<>>, ret |-> NotFound(match_id)]
    ELSE LET caller_pk == from_executor_id(executor)
             r == make_move(Unwrap(st.active_match), caller_pk.key, x, y)
             player_symbol == IF caller_pk.key = r.m.player1 THEN "X" ELSE "O"
             winner_symbol == IF r.m.winner = r.m.player1 THEN "X" ELSE "O"
         IN  IF caller_pk.ret # Ok
             THEN [app |-> st, events |-> <<>>, ret |-> caller_pk.ret]
             ELSE IF r.ret # Ok THEN [app |-> st, events |-> <<>>, ret |-> r.ret]
             ELSE [app |-> [st EXCEPT !.active_match = Some(r.m)],
                   events |->
                       <<MoveMade(match_id, x, y, player_symbol)>> \o
                       (IF r.m.winner # None
                        THEN <<GameWon(match_id, winner_symbol),
                               MatchEnded(match_id)>>
                        ELSE IF is_full(r.m.board, BOARD_SIZE)
                        THEN <<GameTied(match_id), MatchEnded(match_id)>>
                        ELSE <<>>),
                   ret |-> IF is_full(r.m.board, BOARD_SIZE)
                           THEN OkString("tie")
                           ELSE IF r.m.winner # None THEN OkString("win")
                           ELSE OkString("continue")]

\* faulty variant: MatchEnded is emitted before GameWon
state_make_move_ended_first(st, executor, match_id, x, y) ==
    IF ~IsSome(st.active_match)
    THEN [app |-> st, events |-> <<>>, ret |-> Invalid("no active match")]
    ELSE IF match_id # Unwrap(st.active_match).id
    THEN [app |-> st, events |-> <<>>, ret |-> NotFound(match_id)]
    ELSE LET caller_pk == from_executor_id(executor)
             r == make_move(Unwrap(st.active_match), caller_pk.key, x, y)
             player_symbol == IF caller_pk.key = r.m.player1 THEN "X" ELSE "O"
             winner_symbol == IF r.m.winner = r.m.player1 THEN "X" ELSE "O"
         IN  IF caller_pk.ret # Ok
             THEN [app |-> st, events |-> <<>>, ret |-> caller_pk.ret]
             ELSE IF r.ret # Ok THEN [app |-> st, events |-> <<>>, ret |-> r.ret]
             ELSE [app |-> [st EXCEPT !.active_match = Some(r.m)],
                   events |->
                       <<MoveMade(match_id, x, y, player_symbol)>> \o
                       (IF r.m.winner # None
                        THEN <<MatchEnded(match_id),
                               GameWon(match_id, winner_symbol)>>
                        ELSE IF is_full(r.m.board, BOARD_SIZE)
                        THEN <<GameTied(match_id), MatchEnded(match_id)>>
                        ELSE <<>>),
                   ret |-> IF r.m.winner # None THEN OkString("win")
                           ELSE IF is_full(r.m.board, BOARD_SIZE)
                           THEN OkString("tie")
                           ELSE OkString("continue")]

\* TicTacToeState::make_move
state_make_move(st, executor, match_id, x, y) ==
    IF ~IsSome(st.active_match)
    THEN [app |-> st, events |-> <<>>, ret |-> Invalid("no active match")]
    ELSE IF match_id # Unwrap(st.active_match).id
    THEN [app |-> st, events |-> <<>>, ret |-> NotFound(match_id)]
    ELSE LET caller_pk == from_executor_id(executor)
             r == make_move(Unwrap(st.active_match), caller_pk.key, x, y)
             player_symbol == IF caller_pk.key = r.m.player1 THEN "X" ELSE "O"
             winner_symbol == IF r.m.winner = r.m.player1 THEN "X" ELSE "O"
         IN  IF caller_pk.ret # Ok
             THEN [app |-> st, events |-> <<>>, ret |-> caller_pk.ret]
             ELSE IF r.ret # Ok THEN [app |-> st, events |-> <<>>, ret |-> r.ret]
             ELSE [app |-> [st EXCEPT !.active_match = Some(r.m)],
                   events |->
                       <<MoveMade(match_id, x, y, player_symbol)>> \o
                       (IF r.m.winner # None
                        THEN <<GameWon(match_id, winner_symbol),
                               MatchEnded(match_id)>>
                        ELSE IF is_full(r.m.board, BOARD_SIZE)
                        THEN <<GameTied(match_id), MatchEnded(match_id)>>
                        ELSE <<>>),
                   ret |-> IF r.m.winner # None THEN OkString("win")
                           ELSE IF is_full(r.m.board, BOARD_SIZE)
                           THEN OkString("tie")
                           ELSE OkString("continue")]

\* PublicKey::to_base58
to_base58(key) == "b58(" \o key \o ")"

\* BoardView { size, board }
BoardView(sz, cells) == [size |-> sz, board |-> cells]

\* TicTacToeState::get_active_match: the held match, or the error
get_active_match(st) ==
    IF IsSome(st.active_match)
    THEN [ret |-> Ok, value |-> st.active_match]
    ELSE [ret |-> Invalid("no active match"), value |-> NoneOpt]

\* faulty variant: the board is taken out of the state instead of cloned
get_board_take(st, match_id) ==
    LET a == get_active_match(st)
    IN  IF a.ret # Ok THEN [app |-> st, ret |-> a.ret, value |-> NoneOpt]
        ELSE IF match_id # Unwrap(a.value).id
        THEN [app |-> st, ret |-> NotFound(match_id), value |-> NoneOpt]
        ELSE [app |-> [st EXCEPT !.active_match =
                          Some([Unwrap(a.value) EXCEPT !.board = <<>>])],
              ret |-> Ok,
              value |-> Some(BoardView(BOARD_SIZE, Unwrap(a.value).board))]

\* TicTacToeState::get_board; a query returns the state it leaves, its
\* Result and the value inside Ok
get_board(st, match_id) ==
    LET a == get_active_match(st)
    IN  IF a.ret # Ok THEN [app |-> st, ret |-> a.ret, value |-> NoneOpt]
        ELSE IF match_id # Unwrap(a.value).id
        THEN [app |-> st, ret |-> NotFound(match_id), value |-> NoneOpt]
        ELSE [app |-> st, ret |-> Ok,
              value |-> Some(BoardView(BOARD_SIZE, Unwrap(a.value).board))]

\* TicTacToeState::get_matches
get_matches(st) ==
    [app |-> st, ret |-> Ok,
     value |-> Some(IF IsSome(st.active_match)
                    THEN <<Unwrap(st.active_match).id>>
                    ELSE <<>>)]

\* TicTacToeState::get_active_match_id
get_active_match_id(st) ==
    [app |-> st, ret |-> Ok,
     value |-> Some(IF IsSome(st.active_match)
                    THEN Some(Unwrap(st.active_match).id)
                    ELSE NoneOpt)]

\* TicTacToeState::get_current_turn
get_current_turn(st) ==
    [app |-> st, ret |-> Ok,
     value |-> Some(IF IsSome(st.active_match)
                    THEN Some(to_base58(Unwrap(st.active_match).turn))
                    ELSE NoneOpt)]

----------------------------------------------------------------------------
\* SpecApp: one TicTacToeState under create_match and make_move calls

\* the executors that call
Executors == {"alice", "bob"}

\* env::time_now() returns a value of 0..MaxTime
MaxTime == 0

\* create_match is called while fewer than MaxMatches matches were made
MaxMatches == 2

\* the kinds of a sequence of events
Kinds(events) == [i \in DOMAIN events |-> events[i].kind]

\* the ids of the MatchEnded events of a sequence of events
EndedIn(events) ==
    {events[i].id : i \in {j \in DOMAIN events : events[j].kind = "MatchEnded"}}

\* the match ids handed to make_move: the id of the held match and an id
\* that no match has
MoveIds(st) ==
    {"match-0-0"} \cup
    (IF IsSome(st.active_match) THEN {Unwrap(st.active_match).id} ELSE {})

InitApp ==
    /\ m = MatchNew("match-1", "alice", "bob")
    /\ op = "none" /\ caller = None /\ inb = TRUE /\ ret = Ok /\ mover = None /\ moves = 0
    /\ size = BOARD_SIZE /\ board = new_zeroed(BOARD_SIZE) /\ out = None
    /\ cellArg = "Empty" /\ byteArg = 0
    /\ vin = None /\ ctx = <<>> /\ trace = <<>>
    /\ app = init /\ emitted = <<>> /\ ended = {} /\ created = {} /\ pb = None

CreateMatch(executor, player2, now) ==
    /\ app.id_nonce < MaxMatches
    /\ op' = "create_match"
    /\ \E r \in {create_match(app, executor, player2, now)} :
          /\ app' = r.app /\ ret' = r.ret
          /\ emitted' = Kinds(r.events)
          /\ ended' = ended \cup EndedIn(r.events)
          /\ created' = created \cup
                (IF r.ret.kind = "Ok" THEN {r.ret.msg} ELSE {})
    /\ out' = None
    /\ UNCHANGED <<m, caller, inb, mover, moves, boardVars, cellVars, valVars, pb>>

StateMakeMove(executor, match_id, x, y) ==
    /\ op' = "state_make_move"
    /\ \E r \in {state_make_move(app, executor, match_id, x, y)} :
          /\ app' = r.app /\ ret' = r.ret
          /\ emitted' = Kinds(r.events)
          /\ ended' = ended \cup EndedIn(r.events)
          /\ created' = created
    /\ out' = None
    /\ UNCHANGED <<m, caller, inb, mover, moves, boardVars, cellVars, valVars, pb>>

NextApp ==
    \/ \E executor \in Executors : \E player2 \in EncodedKeys :
          \E now \in 0..MaxTime : CreateMatch(executor, player2, now)
    \/ \E executor \in Executors : \E match_id \in MoveIds(app) :
          \E x \in 0..(BOARD_SIZE - 1) : \E y \in 0..(BOARD_SIZE - 1) :
             StateMakeMove(executor, match_id, x, y)

SpecApp == InitApp /\ [][NextApp]_vars

----------------------------------------------------------------------------
\* the base58 string of the key of an identity
EncodingOf(identity) == "b58(" \o identity \o ")"

\* a match is held and it is neither won nor tied
HeldUnfinished(st) ==
    IsSome(st.active_match) /\ ~Terminal(Unwrap(st.active_match))

\* C20: at most one active, unfinished match exists.  After any sequence of
\* create_match and make_move calls, create_match fails with Invalid
\* ("another match is active") and leaves the held match unchanged iff a
\* match is held and it is not finished; when no match is held or the held
\* one is won or tied, create_match with a valid, different opponent
\* replaces it by a fresh match: empty board, turn = caller as player1, no
\* winner
C20_OneActiveMatch ==
    \A executor \in Executors : \A player2 \in EncodedKeys :
      \A now \in 0..MaxTime :
        LET r == create_match(app, executor, player2, now)
        IN  /\ (r.ret = Invalid("another match is active")) <=> HeldUnfinished(app)
            /\ HeldUnfinished(app) => r.app = app
            /\ (/\ ~HeldUnfinished(app)
                /\ \E other \in Identities \ {executor} :
                      player2 = EncodingOf(other))
                 => /\ r.ret.kind = "Ok"
                    /\ IsSome(r.app.active_match)
                    /\ LET fresh == Unwrap(r.app.active_match)
                       IN  /\ \A i \in DOMAIN fresh.board : fresh.board[i] = 0
                           /\ Len(fresh.board) = BOARD_SIZE * BOARD_SIZE
                           /\ fresh.player1 = executor
                           /\ fresh.turn = executor
                           /\ player2 = EncodingOf(fresh.player2)
                           /\ fresh.winner = None
                           /\ fresh.id = r.ret.msg
                           /\ IsSome(app.active_match) =>
                                 fresh.id # Unwrap(app.active_match).id

\* a finished match was replaced by a second, fresh one
C20_Witness ==
    /\ op = "create_match"
    /\ ret.kind = "Ok"
    /\ app.id_nonce = 2
    /\ IsSome(app.active_match)
    /\ Unwrap(app.active_match).board = new_zeroed(BOARD_SIZE)
    /\ Unwrap(app.active_match).winner = None
    /\ Unwrap(app.active_match).id = ret.msg

----------------------------------------------------------------------------
\* every match the wrapper holds has two different players
HeldPlayersDiffer ==
    IsSome(app.active_match) =>
        Unwrap(app.active_match).player1 # Unwrap(app.active_match).player2

\* C21 as stated: create_match whose opponent identity equals the caller's
\* fails with Invalid ("players must differ") and changes nothing (held
\* match, id counter, emitted events); so every match held by the wrapper
\* has player1 # player2
C21_SelfMatchRejectedAsStated ==
    /\ HeldPlayersDiffer
    /\ \A executor \in Executors : \A now \in 0..MaxTime :
          LET r == create_match(app, executor, EncodingOf(executor), now)
          IN  /\ r.ret = Invalid("players must differ")
              /\ r.app = app
              /\ r.events = <<>>

\* C21 amended: create_match whose opponent identity equals the caller's
\* fails with an Invalid error and changes nothing (held match, id counter,
\* emitted events): with "another match is active" while an unfinished
\* match is held, with "players must differ" otherwise; so every match held
\* by the wrapper has player1 # player2
C21_SelfMatchRejected ==
    /\ HeldPlayersDiffer
    /\ \A executor \in Executors : \A now \in 0..MaxTime :
          LET r == create_match(app, executor, EncodingOf(executor), now)
          IN  /\ r.ret = IF HeldUnfinished(app)
                         THEN Invalid("another match is active")
                         ELSE Invalid("players must differ")
              /\ r.app = app
              /\ r.events = <<>>

\* a call with the caller as opponent was rejected while a finished match
\* was held, and the match is still held
C21_Witness ==
    /\ op = "create_match"
    /\ ret = Invalid("players must differ")
    /\ emitted = <<>>
    /\ IsSome(app.active_match)
    /\ Terminal(Unwrap(app.active_match))
    /\ app.id_nonce = 1

----------------------------------------------------------------------------
\* the ids under which the wrapper holds no match, among those handed in
UnknownIds(st) ==
    {"match-0-0", "match-0-1"} \
    (IF IsSome(st.active_match) THEN {Unwrap(st.active_match).id} ELSE {})

\* C22: the wrapper's make_move and get_board, called with a match id under
\* which no match exists, fail with the NotFound error kind and leave the
\* state unchanged, both when a match with another id is held and when no
\* match was ever created
C22_UnknownIdIsNotFound ==
    \A match_id \in UnknownIds(app) :
        /\ get_board(app, match_id).ret.kind = "NotFound"
        /\ get_board(app, match_id).app = app
        /\ \A executor \in Executors :
             \A x \in 0..(BOARD_SIZE - 1) : \A y \in 0..(BOARD_SIZE - 1) :
                LET r == state_make_move(app, executor, match_id, x, y)
                IN  r.ret.kind = "NotFound" /\ r.app = app

\* what a successful move reports
Outcomes == {"win", "tie", "continue"}

\* C23: a successful wrapper make_move returns exactly one of "win", "tie",
\* "continue": "win" iff the match has a winner after the move, "tie" iff it
\* has no winner and the board is full, "continue" iff the match is still in
\* progress; a call that returned "win" or "tie" is the last successful call
\* on its match, so at most one call of a match returns "win" or "tie"
C23_MoveOutcome ==
    /\ (op = "state_make_move" /\ ret.kind = "Ok" /\ ret.msg # "continue")
          => IsSome(app.active_match) /\ Terminal(Unwrap(app.active_match))
    /\ \A executor \in Executors : \A match_id \in MoveIds(app) :
         \A x \in 0..(BOARD_SIZE - 1) : \A y \in 0..(BOARD_SIZE - 1) :
            LET r == state_make_move(app, executor, match_id, x, y)
                after == Unwrap(r.app.active_match)
            IN  r.ret.kind = "Ok" =>
                  /\ r.ret.msg \in Outcomes
                  /\ r.ret.msg = "win" <=> after.winner # None
                  /\ r.ret.msg = "tie" <=>
                        (after.winner = None /\ NoEmptyCell(after.board))
                  /\ r.ret.msg = "continue" <=> ~Terminal(after)
                  /\ r.ret.msg # "continue" =>
                        \A e2 \in Executors :
                          \A x2 \in 0..(BOARD_SIZE - 1) :
                            \A y2 \in 0..(BOARD_SIZE - 1) :
                              state_make_move(r.app, e2, match_id, x2, y2)
                                  .ret.kind # "Ok"

\* a move has just tied the match
C23_Witness ==
    /\ op = "state_make_move"
    /\ ret = OkString("tie")
    /\ Tied(Unwrap(app.active_match))

----------------------------------------------------------------------------
\* SpecQuery: one TicTacToeState under create_match, make_move and the
\* queries of the wrapper and of the Match it holds

\* create_match is called while fewer than MaxQueried matches were made
MaxQueried == 1

\* a query of the wrapper: the state it leaves, its Result, the value in Ok
GetBoard(match_id) ==
    /\ op' = "get_board"
    /\ \E r \in {get_board(app, match_id)} :
          app' = r.app /\ ret' = r.ret /\ out' = r.value
    /\ emitted' = <<>>
    /\ UNCHANGED <<m, caller, inb, mover, moves, boardVars, cellVars, valVars,
                   ended, created, pb>>

GetMatches ==
    /\ op' = "get_matches"
    /\ \E r \in {get_matches(app)} :
          app' = r.app /\ ret' = r.ret /\ out' = r.value
    /\ emitted' = <<>>
    /\ UNCHANGED <<m, caller, inb, mover, moves, boardVars, cellVars, valVars,
                   ended, created, pb>>

GetActiveMatchId ==
    /\ op' = "get_active_match_id"
    /\ \E r \in {get_active_match_id(app)} :
          app' = r.app /\ ret' = r.ret /\ out' = r.value
    /\ emitted' = <<>>
    /\ UNCHANGED <<m, caller, inb, mover, moves, boardVars, cellVars, valVars,
                   ended, created, pb>>

GetCurrentTurn ==
    /\ op' = "get_current_turn"
    /\ \E r \in {get_current_turn(app)} :
          app' = r.app /\ ret' = r.ret /\ out' = r.value
    /\ emitted' = <<>>
    /\ UNCHANGED <<m, caller, inb, mover, moves, boardVars, cellVars, valVars,
                   ended, created, pb>>

\* a query of the held Match; the receiver is &self, the Match stays as it is
IsFinished ==
    /\ IsSome(app.active_match)
    /\ op' = "is_finished"
    /\ out' = Some(is_finished(Unwrap(app.active_match)))
    /\ ret' = Ok /\ emitted' = <<>>
    /\ UNCHANGED <<m, caller, inb, mover, moves, boardVars, cellVars, valVars,
                   app, ended, created, pb>>

GetCurrentPlayerSymbol ==
    /\ IsSome(app.active_match)
    /\ op' = "get_current_player_symbol"
    /\ out' = Some(get_current_player_symbol(Unwrap(app.active_match)))
    /\ ret' = Ok /\ emitted' = <<>>
    /\ UNCHANGED <<m, caller, inb, mover, moves, boardVars, cellVars, valVars,
                   app, ended, created, pb>>

IsPlayer(player) ==
    /\ IsSome(app.active_match)
    /\ op' = "is_player"
    /\ out' = Some(is_player(Unwrap(app.active_match), player))
    /\ ret' = Ok /\ emitted' = <<>>
    /\ UNCHANGED <<m, caller, inb, mover, moves, boardVars, cellVars, valVars,
                   app, ended, created, pb>>

NextQuery ==
    \/ \E executor \in Executors : \E player2 \in {"b58(alice)", "b58(bob)"} :
          \E now \in 0..MaxTime :
             app.id_nonce < MaxQueried /\ CreateMatch(executor, player2, now)
    \/ \E executor \in Executors :
          \E x \in 0..(BOARD_SIZE - 1) : \E y \in 0..(BOARD_SIZE - 1) :
             /\ IsSome(app.active_match)
             /\ StateMakeMove(executor, Unwrap(app.active_match).id, x, y)
    \/ \E match_id \in MoveIds(app) : GetBoard(match_id)
    \/ GetMatches
    \/ GetActiveMatchId
    \/ GetCurrentTurn
    \/ IsFinished
    \/ GetCurrentPlayerSymbol
    \/ \E player \in Identities : IsPlayer(player)

SpecQuery == InitApp /\ [][NextQuery]_vars

\* the operations that only read
Queries ==
    {"get_board", "get_matches", "get_active_match_id", "get_current_turn",
     "is_finished", "get_current_player_symbol", "is_player"}

\* C24: is_finished, get_current_player_symbol and is_player of Match, and
\* get_board, get_matches, get_active_match_id and get_current_turn of the
\* wrapper, leave the match and the wrapper state unchanged in every state
C24_QueriesChangeNothing ==
    [][op' \in Queries => (app' = app /\ ended' = ended)]_vars

\* get_board has just answered for a match with marks on its board
C24_Witness ==
    /\ op = "get_board"
    /\ ret = Ok
    /\ IsSome(app.active_match)
    /\ out = Some(BoardView(BOARD_SIZE, Unwrap(app.active_match).board))
    /\ \E i \in DOMAIN Unwrap(app.active_match).board :
          Unwrap(app.active_match).board[i] # 0

----------------------------------------------------------------------------
\* SpecStrategy: each strategy applied on its own to inputs in which every
\* field is present or absent

\* the coordinates of the lists: two on the default board, two just off it
StrategyCoords ==
    {Coord(0, 0), Coord(MaxXY, MaxXY), Coord(BOARD_SIZE, 0), Coord(0, BOARD_SIZE)}

\* the inputs with every field absent or one of a few values, the
\* coordinate lists having up to len coordinates
StrategyInputs(len) ==
    {[board |-> b, coordinates |-> cs, size |-> sz, ship_length |-> sl,
      fleet_composition |-> comp, ships |-> ss] :
        b \in {NoneOpt} \cup {Some(c) : c \in CtxBoards},
        cs \in {NoneOpt} \cup {Some(l) : l \in SeqsUpTo(StrategyCoords, len)},
        sz \in {NoneOpt} \cup {Some(n) : n \in CtxSizes},
        sl \in {NoneOpt, Some(1), Some(2)},
        comp \in {NoneOpt, Some(<<1, 2, 1, 1>>), Some(<<1, 1, 1, 1>>)},
        ss \in {NoneOpt, Some(<<>>), Some(<<<<Coord(0, 0)>>, <<Coord(0, 0)>>>>)}}

InitStrategy ==
    /\ m = MatchNew("match-1", "alice", "bob")
    /\ op = "none" /\ caller = None /\ inb = TRUE /\ ret = Ok /\ mover = None /\ moves = 0
    /\ size = BOARD_SIZE /\ board = new_zeroed(BOARD_SIZE) /\ out = None
    /\ cellArg = "Empty" /\ byteArg = 0
    /\ vin \in StrategyInputs(MaxCtxLen)
    /\ ctx = ValidationContextNew
    /\ trace = <<>>
    /\ app = None /\ emitted = <<>> /\ ended = {} /\ created = {} /\ pb = None

\* strategy.validate(&input) for one strategy
ApplyStrategy(name) ==
    /\ op' = name
    /\ out' = StrategyValidate(name, vin)
    /\ UNCHANGED <<matchVars, boardVars, cellVars, valVars, appVars, pb>>

\* ValidationContext::ship_placement().validate(&input)
ValidatePlacementPreset ==
    /\ op' = "ship_placement"
    /\ ctx' = ship_placement
    /\ \E r \in {validate(ship_placement, vin)} :
          out' = r.ret /\ trace' = r.trace
    /\ UNCHANGED <<matchVars, boardVars, cellVars, vin, appVars, pb>>

NextStrategy ==
    \/ \E name \in StrategyNames : ApplyStrategy(name)
    \/ ValidatePlacementPreset

SpecStrategy == InitStrategy /\ [][NextStrategy]_vars

\* the fields a strategy cannot do without; the length check does without
\* either of its two as long as the other is there
RequiredFields(name) ==
    CASE name \in {"BoundsValidation", "UniquenessValidation",
                   "StraightLineValidation", "ContiguityValidation"}
            -> {"coordinates"}
      [] name \in {"OverlapValidation", "AdjacencyValidation"}
            -> {"board", "coordinates"}
      [] name = "FleetCompositionValidation" -> {"fleet_composition"}
      [] name \in {"ShipOverlapValidation", "ShipAdjacencyValidation"}
            -> {"ships"}
      [] name = "ShipLengthValidation" -> {}

\* a field the strategy requires is absent from the input
LacksRequired(name, in) ==
    \/ \E f \in RequiredFields(name) : ~IsSome(in[f])
    \/ /\ name = "ShipLengthValidation"
       /\ ~IsSome(in.ship_length) /\ ~IsSome(in.coordinates)

\* C25: every strategy fails with an Invalid error, rather than passing or
\* aborting, when a field it requires is absent: coordinates for bounds,
\* uniqueness, overlap, the adjacency no-op, straight-line and contiguity;
\* board for overlap and the adjacency no-op; fleet composition for the
\* composition check; ships for the two inter-ship checks; ship length and
\* coordinates both absent for the length check.  An absent size is not an
\* error: bounds and overlap then decide as with the board size 3
C25_AbsentFieldIsInvalid ==
    op \in StrategyNames =>
        /\ LacksRequired(op, vin) => out.kind = "Invalid"
        /\ (/\ op \in {"BoundsValidation", "OverlapValidation"}
            /\ ~IsSome(vin.size))
              => out = StrategyValidate(op, with_size(vin, 3))

\* overlap applied to a list without a board, and without a size
C25_Witness ==
    /\ op = "OverlapValidation"
    /\ ~IsSome(vin.board) /\ IsSome(vin.coordinates) /\ ~IsSome(vin.size)
    /\ out = Invalid("board required for overlap validation")

----------------------------------------------------------------------------
\* SpecSmall: the boards of the sizes 0..MaxSmallSize, built by new_zeroed
\* and written by set, under check_winner and is_full

\* the largest size of a board that starts zeroed
MaxSmallSize == 2

InitSmall ==
    /\ size \in 0..MaxSmallSize
    /\ board = new_zeroed(size)
    /\ op = "none"
    /\ out = None
    /\ m = MatchNew("match-1", "alice", "bob")
    /\ caller = None
    /\ inb = TRUE
    /\ ret = Ok
    /\ mover = None /\ moves = 0
    /\ cellArg = "Empty" /\ byteArg = 0
    /\ vin = None /\ ctx = <<>> /\ trace = <<>>
    /\ app = None /\ emitted = <<>> /\ ended = {} /\ created = {} /\ pb = None

\* a call of board.set(size, x, y, cell), made as the callers make it,
\* after in_bounds
SetCell(x, y, cell) ==
    /\ in_bounds(size, x, y)
    /\ op' = "set"
    /\ board' = set(board, size, x, y, cell)
    /\ out' = None
    /\ UNCHANGED <<matchVars, size, cellVars, valVars, appVars, pb>>

NextSmall ==
    \/ \E x \in 0..(MaxSmallSize - 1) : \E y \in 0..(MaxSmallSize - 1) :
          \E cell \in {"X", "O"} : SetCell(x, y, cell)
    \/ CheckWinner
    \/ IsFull

SpecSmall == InitSmall /\ [][NextSmall]_vars

\* C26: board size 0 degenerates to "always full, never won": on the board
\* produced by new_zeroed(0), is_full(0) returns true and check_winner(0)
\* returns none, without any error or out-of-range access
C26_SizeZeroFullNeverWon ==
    (size = 0 /\ board = new_zeroed(0)) =>
        /\ op = "is_full" => out = TRUE
        /\ op = "check_winner" => out = None

----------------------------------------------------------------------------
\* the ids in the list get_matches returns
Listed(st) ==
    LET ids == Unwrap(get_matches(st).value)
    IN  {ids[i] : i \in DOMAIN ids}

\* C27: get_matches returns the list of all match ids: after any sequence of
\* operations, every id returned by a successful create_match (including
\* matches that finished and were followed by a new match) is in the list
\* returned by get_matches
C27_GetMatchesListsAll ==
    get_matches(app).ret = Ok /\ created \subseteq Listed(app)

----------------------------------------------------------------------------
\* players.rs: PlayerBoard

\* PlayerBoard::new
PlayerBoardNew == [own |-> new_zeroed(BOARD_SIZE), ships |-> 0, placed |-> FALSE]

\* PlayerBoard::make_move: the new PlayerBoard and the Result
player_board_make_move(p, x, y, mark) ==
    IF p.placed THEN [pb |-> p, ret |-> Invalid("game already finished")]
    ELSE IF ~in_bounds(BOARD_SIZE, x, y)
    THEN [pb |-> p, ret |-> Invalid("coordinate out of bounds")]
    ELSE IF get(p.own, BOARD_SIZE, x, y) # "Empty"
    THEN [pb |-> p, ret |-> Invalid("cell already occupied")]
    ELSE [pb |-> [p EXCEPT !.own = set(p.own, BOARD_SIZE, x, y, mark)],
          ret |-> Ok]

\* PlayerBoard::is_placed
is_placed(p) == p.placed

\* PlayerBoard::set_finished
set_finished(p) == [p EXCEPT !.placed = TRUE]

----------------------------------------------------------------------------
\* SpecPlayer: one PlayerBoard under make_move and set_finished calls

InitPlayer ==
    /\ m = MatchNew("match-1", "alice", "bob")
    /\ op = "none" /\ caller = None /\ inb = TRUE /\ ret = Ok /\ mover = None /\ moves = 0
    /\ size = BOARD_SIZE /\ board = new_zeroed(BOARD_SIZE) /\ out = None
    /\ cellArg = "Empty" /\ byteArg = 0
    /\ vin = None /\ ctx = <<>> /\ trace = <<>>
    /\ app = None /\ emitted = <<>> /\ ended = {} /\ created = {}
    /\ pb = PlayerBoardNew

PlayerMakeMove(x, y, mark) ==
    /\ op' = "player_board_make_move"
    /\ \E r \in {player_board_make_move(pb, x, y, mark)} :
          pb' = r.pb /\ ret' = r.ret
    /\ UNCHANGED <<m, caller, inb, mover, moves, boardVars, out, cellVars, valVars,
                   appVars>>

SetFinished ==
    /\ op' = "set_finished"
    /\ pb' = set_finished(pb)
    /\ ret' = Ok
    /\ UNCHANGED <<m, caller, inb, mover, moves, boardVars, out, cellVars, valVars,
                   appVars>>

NextPlayer ==
    \/ \E x \in 0..MaxCoord : \E y \in 0..MaxCoord : \E mark \in Cells :
          PlayerMakeMove(x, y, mark)
    \/ SetFinished

SpecPlayer == InitPlayer /\ [][NextPlayer]_vars

\* the byte that stands for a cell value
EncodingOfCell(cell) == CASE cell = "Empty" -> 0 [] cell = "X" -> 1 [] cell = "O" -> 2

\* what the claim says of one call on the private board p
PlayerMoveAsClaimed(p, x, y, mark) ==
    LET r == player_board_make_move(p, x, y, mark)
        target == y * BOARD_SIZE + x + 1
    IN  IF p.placed THEN r.ret.kind = "Finished" /\ r.pb = p
        ELSE IF ~(x < BOARD_SIZE /\ y < BOARD_SIZE) \/ p.own[target] # 0
        THEN r.ret.kind = "Invalid" /\ r.pb = p
        ELSE /\ r.ret = Ok
             /\ r.pb = [p EXCEPT !.own[target] = EncodingOfCell(mark)]

\* C28: a private board that has reached its terminal state (set_finished
\* was called) rejects every further PlayerBoard.make_move with the Finished
\* error kind and stays unchanged; before that, make_move fails with Invalid
\* for an out-of-bounds or occupied cell (board unchanged) and otherwise
\* writes exactly the target cell
C28_FinishedBoardRejectsMoves ==
    \A x \in 0..MaxCoord : \A y \in 0..MaxCoord : \A mark \in Cells :
        PlayerMoveAsClaimed(pb, x, y, mark)

----------------------------------------------------------------------------
\* the events a successful move of the executor on the held match must emit,
\* given the match before and after it
EventsDue(before, after, executor, x, y) ==
    LET symbol == IF executor = before.player1 THEN "X" ELSE "O"
    IN  <<MoveMade(before.id, x, y, symbol)>> \o
        (IF HasLineOf(after.board, BOARD_SIZE, symbol)
         THEN <<GameWon(before.id, symbol), MatchEnded(before.id)>>
         ELSE IF Tied(after)
         THEN <<GameTied(before.id), MatchEnded(before.id)>>
         ELSE <<>>)

\* C29: create_match emits MatchCreated once; every successful wrapper
\* make_move emits exactly one MoveMade first (player symbol X iff the caller
\* is player1, equal to the mark just written); a winning move then emits
\* GameWon (winner symbol of the mover) followed by MatchEnded, a tying move
\* emits GameTied followed by MatchEnded, any other move emits nothing more;
\* a rejected call emits no event; MatchEnded is emitted at most once per
\* match and no MoveMade for that match follows it
C29_EventOrdering ==
    /\ \A executor \in Executors : \A player2 \in EncodedKeys :
         \A now \in 0..MaxTime :
            LET r == create_match(app, executor, player2, now)
            IN  r.events = IF r.ret.kind = "Ok"
                           THEN <<MatchCreated(r.ret.msg)>> ELSE <<>>
    /\ \A executor \in Executors : \A match_id \in MoveIds(app) \cup ended :
         \A x \in 0..(BOARD_SIZE - 1) : \A y \in 0..(BOARD_SIZE - 1) :
            LET r == state_make_move(app, executor, match_id, x, y)
                before == Unwrap(app.active_match)
                after == Unwrap(r.app.active_match)
            IN  /\ r.ret.kind # "Ok" => r.events = <<>>
                /\ r.ret.kind = "Ok" =>
                      /\ match_id = before.id
                      /\ r.events = EventsDue(before, after, executor, x, y)
                      /\ ByteAt(after.board, BOARD_SIZE, <<x, y>>) =
                            MarkByte(r.events[1].player)
                /\ match_id \in ended => r.events = <<>>
    /\ op = "create_match" => emitted \in {<<>>, <<"MatchCreated">>}
    /\ op = "state_make_move" =>
          emitted \in {<<>>, <<"MoveMade">>,
                       <<"MoveMade", "GameWon", "MatchEnded">>,
                       <<"MoveMade", "GameTied", "MatchEnded">>}

\* the second player has just won: MoveMade, GameWon, MatchEnded
C29_Witness ==
    /\ op = "state_make_move"
    /\ emitted = <<"MoveMade", "GameWon", "MatchEnded">>
    /\ Unwrap(app.active_match).id \in ended
    /\ Unwrap(app.active_match).winner = Unwrap(app.active_match).player2

----------------------------------------------------------------------------
\* C30: win takes priority over tie: a successful move that both fills the
\* last empty cell and completes a line for the mover results in Won
\* (winner = mover, the wrapper returns "win", GameWon is emitted), never in
\* Tied
C30_WinBeforeTie ==
    \A executor \in Executors : \A match_id \in MoveIds(app) :
      \A x \in 0..(BOARD_SIZE - 1) : \A y \in 0..(BOARD_SIZE - 1) :
        LET r == state_make_move(app, executor, match_id, x, y)
            before == Unwrap(app.active_match)
            after == Unwrap(r.app.active_match)
            symbol == IF executor = before.player1 THEN "X" ELSE "O"
        IN  (/\ r.ret.kind = "Ok"
             /\ NoEmptyCell(after.board)
             /\ HasLineOf(after.board, BOARD_SIZE, symbol))
               => /\ after.winner = executor
                  /\ r.ret = OkString("win")
                  /\ Kinds(r.events) = <<"MoveMade", "GameWon", "MatchEnded">>
                  /\ r.events[2] = GameWon(match_id, symbol)

\* the ninth move has just completed a line: the board is full and won
C30_Witness ==
    /\ op = "state_make_move"
    /\ ret = OkString("win")
    /\ emitted = <<"MoveMade", "GameWon", "MatchEnded">>
    /\ NoEmptyCell(Unwrap(app.active_match).board)
    /\ Unwrap(app.active_match).winner = Unwrap(app.active_match).player1

----------------------------------------------------------------------------
\* the full-length lines of a board of size n in the order of the scan:
\* rows by increasing y, columns by increasing x, main diagonal,
\* anti-diagonal
ScanOrder(n) ==
    [y \in 1..n |-> {<<x, y - 1>> : x \in 0..(n - 1)}]
    \o [x \in 1..n |-> {<<x - 1, y>> : y \in 0..(n - 1)}]
    \o << {<<i, i>> : i \in 0..(n - 1)} >>
    \o << {<<n - 1 - i, i>> : i \in 0..(n - 1)} >>

\* the mark of the earliest complete line in the order of the scan
FirstCompleteMark(b, n) ==
    LET Complete(k) == LineOf(b, n, ScanOrder(n)[k], "X")
                          \/ LineOf(b, n, ScanOrder(n)[k], "O")
        k0 == CHOOSE k \in 1..(2 * n + 2) :
                 Complete(k) /\ \A j \in 1..(k - 1) : ~Complete(j)
    IN  IF LineOf(b, n, ScanOrder(n)[k0], "X") THEN "X" ELSE "O"

\* C31: on an arbitrary board in which lines of both marks are complete,
\* check_winner reports the mark of the first satisfied line in the order
\* rows (by increasing y), then columns (by increasing x), then main
\* diagonal, then anti-diagonal: with row 0 all O and row 1 all X it returns O
C31_FirstLineInScanOrder ==
    op = "check_winner" =>
        /\ HasLine(board, size) => out = FirstCompleteMark(board, size)
        /\ (/\ size = 3
            /\ \A x \in 0..2 : ByteAt(board, 3, <<x, 0>>) = 2
            /\ \A x \in 0..2 : ByteAt(board, 3, <<x, 1>>) = 1) => out = "O"

\* row 0 is all O and row 1 all X: O is reported.  Column 0 cannot be
\* complete on such a board, so the last row is chosen to complete nothing
C31_Witness ==
    /\ op = "check_winner"
    /\ size = 3
    /\ board = <<2, 2, 2, 1, 1, 1, 0, 0, 0>>
    /\ out = "O"

----------------------------------------------------------------------------
\* the mark of a participant
MarkOf(mt, p) == IF p = mt.player1 THEN "X" ELSE "O"

\* C32: in every board reachable by a Match (marks placed alternately
\* through make_move, stopping at the first win), at most one of the two
\* marks occupies a complete line, so the scan order of check_winner never
\* affects which player is declared winner: the winner is the one player
\* whose mark has a line
C32_OneMarkHasALine ==
    /\ ~(HasLineOf(m.board, BOARD_SIZE, "X") /\ HasLineOf(m.board, BOARD_SIZE, "O"))
    /\ \A mark \in {"X", "O"} :
          HasLineOf(m.board, BOARD_SIZE, mark) <=>
             (m.winner \in Participants(m) /\ MarkOf(m, m.winner) = mark)
    /\ \A mark \in {"X", "O"} :
          HasLineOf(m.board, BOARD_SIZE, mark) =>
             check_winner(m.board, BOARD_SIZE) = mark

\* the first player has won with two complete lines of X at once
C32_Witness ==
    /\ op = "make_move"
    /\ ret = Ok
    /\ m.winner = m.player1
    /\ Cardinality({L \in Lines(BOARD_SIZE) :
                       LineOf(m.board, BOARD_SIZE, L, "X")}) = 2
    /\ ~HasLineOf(m.board, BOARD_SIZE, "O")

----------------------------------------------------------------------------
\* the number of cells of b that hold the byte v
CountOf(b, v) == Cardinality({i \in DOMAIN b : b[i] = v})

\* C33: mark assignment and parity: in every reachable state of a Match with
\* distinct players, each X cell was written by a move of player1 and each O
\* cell by a move of player2 (the board starts empty and every accepted move
\* writes the mover's mark, X for player1 and O for player2, into its target
\* cell and nothing else), the number of X cells minus the number of O cells
\* is 0 or 1, and while the match is unfinished turn = player1 iff the two
\* counts are equal (turn = player2 iff X leads by one); the initial state
\* has an empty board, turn = player1 and no winner
C33_MarksAndParity ==
    /\ op = "none" => /\ m.board = [i \in 1..(BOARD_SIZE * BOARD_SIZE) |-> 0]
                      /\ m.turn = m.player1
                      /\ m.winner = None
    /\ \A i \in DOMAIN m.board : m.board[i] \in {0, 1, 2}
    /\ CountOf(m.board, 1) - CountOf(m.board, 2) \in {0, 1}
    /\ ~Terminal(m) =>
          /\ m.turn = m.player1 <=> CountOf(m.board, 1) = CountOf(m.board, 2)
          /\ m.turn = m.player2 <=> CountOf(m.board, 1) = CountOf(m.board, 2) + 1
    /\ \A p \in Identities : \A x \in 0..MaxCoord : \A y \in 0..MaxCoord :
          LET r == make_move(m, p, x, y)
          IN  r.ret = Ok =>
                /\ p \in Participants(m)
                /\ m.board[y * BOARD_SIZE + x + 1] = 0
                /\ r.m.board = [m.board EXCEPT ![y * BOARD_SIZE + x + 1] =
                                   IF p = m.player1 THEN 1 ELSE 2]
    /\ mover = m.player1 => CountOf(m.board, 1) = CountOf(m.board, 2) + 1
    /\ mover = m.player2 => CountOf(m.board, 1) = CountOf(m.board, 2)

\* the second player has just written the second O; the match goes on
C33_Witness ==
    /\ op = "make_move"
    /\ ret = Ok
    /\ mover = m.player2
    /\ CountOf(m.board, 1) = 2 /\ CountOf(m.board, 2) = 2
    /\ m.turn = m.player1
    /\ ~Terminal(m)

----------------------------------------------------------------------------
\* C34: in every reachable wrapper state the held match's board is a
\* sequence of exactly 9 bytes, each in {0,1,2}, stored row-major (the cell
\* written by a move at (x,y) is index y*3+x and no other index changes);
\* get_board returns size 3 and exactly this sequence
C34_BoardWireFormat ==
    IsSome(app.active_match) =>
        LET held == Unwrap(app.active_match)
        IN  /\ Len(held.board) = 9
            /\ \A i \in 1..9 : held.board[i] \in {0, 1, 2}
            /\ \A executor \in Executors :
                 \A x \in 0..(BOARD_SIZE - 1) : \A y \in 0..(BOARD_SIZE - 1) :
                    LET r == state_make_move(app, executor, held.id, x, y)
                        after == Unwrap(r.app.active_match).board
                    IN  r.ret.kind = "Ok" =>
                          \A i \in 0..8 :
                             after[i + 1] # held.board[i + 1] <=> i = y * 3 + x
            /\ get_board(app, held.id).ret = Ok
            /\ get_board(app, held.id).value = Some([size |-> 3, board |-> held.board])
            /\ (op = "get_board" /\ ret = Ok) =>
                  out = Some([size |-> 3, board |-> held.board])

\* get_board has answered with a board whose only mark is at (2, 1), the
\* sixth byte
C34_Witness ==
    /\ op = "get_board"
    /\ ret = Ok
    /\ out = Some([size |-> 3, board |-> <<0, 0, 0, 0, 0, 1, 0, 0, 0>>])

----------------------------------------------------------------------------
\* the number of cells of b that hold a mark
Marked(b) == Cardinality({i \in DOMAIN b : b[i] # 0})

\* C35: every match terminates: the number of successful make_move calls on
\* a Match always equals the number of non-Empty cells, so a match accepts
\* at most 9 successful moves and is finished (Won or Tied) after the 9th at
\* the latest; no match is Won before its 5th successful move; while a match
\* is unfinished, the player on turn always has at least one move that is
\* accepted
C35_MatchTerminates ==
    /\ moves = Marked(m.board)
    /\ moves <= 9
    /\ moves = 9 => (is_finished(m) /\ (m.winner # None \/ Tied(m)))
    /\ m.winner # None => moves >= 5
    /\ ~is_finished(m) =>
          \E x \in 0..(BOARD_SIZE - 1) : \E y \in 0..(BOARD_SIZE - 1) :
             make_move(m, m.turn, x, y).ret = Ok

\* the ninth move was accepted and tied the match
C35_Witness ==
    /\ op = "make_move"
    /\ ret = Ok
    /\ moves = 9
    /\ Tied(m)
    /\ m.winner = None

----------------------------------------------------------------------------
\* SpecPlacement: validate_ship_placement applied to boards, coordinate
\* lists and sizes, the size being the board's dimension or not

\* longest list of freely chosen coordinates
MaxPlaceLen == 3

\* dimension of the large board, and longest line laid on it
MaxRun == 6

\* the coordinates of the freely chosen lists: the 3x3 board and one step
\* beyond it
PlaceCoords == {Coord(x, y) : x \in 0..BOARD_SIZE, y \in 0..BOARD_SIZE}

\* n cells from (start, 0) along the x axis or from (0, start) along the y
\* axis, in increasing or decreasing order
LineList(n, start, axis, reversed) ==
    [i \in 1..n |->
        LET k == IF reversed THEN start + n - i ELSE start + i - 1
        IN  IF axis = "x" THEN Coord(k, 0) ELSE Coord(0, k)]

\* the large boards: an empty one and one with a mark in its first row
LargeBoards(n) == {new_zeroed(n), set(new_zeroed(n), n, n - 2, 0, "O")}

\* the arguments of validate_ship_placement: a 3x3 board with its size and
\* every list of up to len coordinates; a large board with its size and the
\* lines of up to its dimension; a 3x3 board with a size that is not its
\* dimension
PlacementInputs(len, run) ==
    {with_size(with_coordinates(with_board(ValidationInputNew, b), cs), BOARD_SIZE) :
        b \in CtxBoards, cs \in SeqsUpTo(PlaceCoords, len)}
    \cup {with_size(with_coordinates(with_board(ValidationInputNew, b),
                        LineList(n, start, axis, reversed)), run) :
             b \in LargeBoards(run), n \in 0..run, start \in {0, 1},
             axis \in {"x", "y"}, reversed \in BOOLEAN}
    \cup {with_size(with_coordinates(with_board(ValidationInputNew, b), cs), sz) :
             b \in CtxBoards,
             cs \in SeqsUpTo({Coord(0, 0), Coord(1, 0), Coord(2, 0),
                              Coord(5, 5), Coord(5, 6)}, 2),
             sz \in {BOARD_SIZE - 1, 10}}

InitPlacement ==
    /\ m = MatchNew("match-1", "alice", "bob")
    /\ op = "none" /\ caller = None /\ inb = TRUE /\ ret = Ok /\ mover = None /\ moves = 0
    /\ size = BOARD_SIZE /\ board = new_zeroed(BOARD_SIZE) /\ out = None
    /\ cellArg = "Empty" /\ byteArg = 0
    /\ vin \in PlacementInputs(MaxPlaceLen, MaxRun)
    /\ ctx = ValidationContextNew
    /\ trace = <<>>
    /\ app = None /\ emitted = <<>> /\ ended = {} /\ created = {} /\ pb = None

NextPlacement == ValidateShipPlacement

SpecPlacement == InitPlacement /\ [][NextPlacement]_vars

\* every coordinate of the list is on a cell of b that holds no mark
AllOnEmpty(b, sz, cs) ==
    \A i \in 1..Len(cs) : ByteAt(b, sz, <<cs[i].x, cs[i].y>>) \notin {1, 2}

\* C36: when size equals the board's real dimension,
\* validate_ship_placement(board, coordinates, size) succeeds iff the
\* coordinates are all within [0,size), pairwise distinct, all on Empty
\* cells of the board, and form 2 to 5 consecutive cells of a single row or
\* a single column; every single-cell placement and every empty list is
\* rejected, by the length rule when nothing else is wrong with it
C36_PlacementIffLineOnEmptyCells ==
    (/\ op = "validate_ship_placement"
     /\ Len(Unwrap(vin.board)) = Unwrap(vin.size) * Unwrap(vin.size)) =>
        LET b == Unwrap(vin.board)
            cs == Unwrap(vin.coordinates)
            sz == Unwrap(vin.size)
        IN  /\ (out = Ok) <=>
                  /\ ~HasOutOfBounds(cs, sz)
                  /\ ~HasDuplicate(cs)
                  /\ AllOnEmpty(b, sz, cs)
                  /\ Len(cs) >= 2 /\ Len(cs) <= 5
                  /\ IsContiguousLine(cs)
            /\ Len(cs) <= 1 =>
                  /\ out # Ok
                  /\ (~HasOutOfBounds(cs, sz) /\ AllOnEmpty(b, sz, cs)) =>
                        out = Invalid("ship length must be between 2 and 5")

\* five cells of a column, given from the far end, were accepted on a board
\* that holds a mark elsewhere
C36_Witness ==
    /\ op = "validate_ship_placement"
    /\ out = Ok
    /\ Len(Unwrap(vin.coordinates)) = 5
    /\ Unwrap(vin.coordinates)[1].y > Unwrap(vin.coordinates)[5].y
    /\ \E i \in DOMAIN Unwrap(vin.board) : Unwrap(vin.board)[i] = 2

----------------------------------------------------------------------------
\* the placement pipeline with the adjacency placeholder taken out
PlacementWithoutAdjacency ==
    <<"BoundsValidation", "UniquenessValidation", "OverlapValidation",
      "StraightLineValidation", "ContiguityValidation",
      "ShipLengthValidation">>

\* C37: the adjacency strategy is vacuous inside the placement preset: for
\* every ValidationInput (fields present or absent), the placement preset
\* returns the same result, including the same error, as the same pipeline
\* with AdjacencyValidationStrategy removed - although the strategy on its
\* own fails when board or coordinates are absent
C37_AdjacencyVacuousInPreset ==
    /\ op = "ship_placement" =>
          /\ out = validate(PlacementWithoutAdjacency, vin).ret
          /\ out = EarliestError(PlacementWithoutAdjacency, vin)
    /\ op = "AdjacencyValidation" =>
          (out # Ok <=> (~IsSome(vin.board) \/ ~IsSome(vin.coordinates)))

\* the preset has stopped at the overlap rule on an input without a board,
\* on which the adjacency strategy fails with its own error
C37_Witness ==
    /\ op = "ship_placement"
    /\ ~IsSome(vin.board) /\ IsSome(vin.coordinates)
    /\ out = Invalid("board required for overlap validation")
    /\ AdjacencyValidate(vin) = Invalid("board required for adjacency validation")
    /\ trace = <<"BoundsValidation", "UniquenessValidation", "OverlapValidation">>

----------------------------------------------------------------------------
\* C38: validate_ship_placement completes with Ok or Err for every
\* combination of board, coordinate list and size, and never reads the
\* board outside its stored length - including when the size argument is
\* larger than the board's real dimension, as with a 9-cell board, size 10
\* and the coordinate (5,5)
C38_PlacementNeverReadsOutside ==
    op = "validate_ship_placement" => out.kind \in {"Ok", "Invalid"}

----------------------------------------------------------------------------
\* C39: validate_fleet_composition(counts, ships) succeeds iff counts =
\* [1,2,1,1], no coordinate appears in two ships at different positions of
\* the list, and no two such ships have coordinates at Chebyshev distance 1;
\* the number of ships and their lengths are never compared with the counts,
\* so counts [1,2,1,1] with an empty ship list, or with ships of other
\* lengths, is accepted
C39_FleetIffCountsAndSeparation ==
    op = "validate_fleet_composition" =>
        LET counts == Unwrap(vin.fleet_composition)
            ss == Unwrap(vin.ships)
        IN  /\ (out = Ok) <=> /\ counts = <<1, 2, 1, 1>>
                              /\ ~FleetOverlaps(ss)
                              /\ ~FleetTouches(ss)
            /\ (counts = <<1, 2, 1, 1>> /\ ss = <<>>) => out = Ok

\* counts [1,2,1,1] with two ships of one cell each, apart, was accepted
C39_Witness ==
    /\ op = "validate_fleet_composition"
    /\ vin.fleet_composition = Some(<<1, 2, 1, 1>>)
    /\ Len(Unwrap(vin.ships)) = 2
    /\ Len(Unwrap(vin.ships)[1]) = 1
    /\ out = Ok

----------------------------------------------------------------------------
\* C40: contiguity subsumes straightness: every coordinate list of length
\* >= 2 that the contiguity rule accepts is also accepted by the
\* straight-line rule; a list that is neither a row nor a column, and a list
\* of identical coordinates, is never accepted by the contiguity rule, even
\* when it is run without the straight-line rule
C40_ContiguousImpliesStraight ==
    (/\ op = "ContiguityValidation"
     /\ IsSome(vin.coordinates)
     /\ Len(Unwrap(vin.coordinates)) >= 2) =>
        LET cs == Unwrap(vin.coordinates)
        IN  /\ out = Ok => StraightLineValidate(vin) = Ok
            /\ (~AllShareX(cs) /\ ~AllShareY(cs)) => out # Ok
            /\ (\A i \in 1..Len(cs) : cs[i] = cs[1]) => out # Ok

\* a diagonal pair, which the straight-line rule rejects too, was rejected
\* by the contiguity rule run on its own
C40_Witness ==
    /\ op = "ContiguityValidation"
    /\ vin.coordinates = Some(<<Coord(0, 0), Coord(1, 1)>>)
    /\ out = Invalid("ship must be contiguous")
    /\ StraightLineValidate(vin) # Ok

====
